---- MODULE Spec2Model ----
(***************************************************************************)
(* State-machine model of validation_framework: the in-memory CAN port     *)
(* (hal/implementations/mock_can_port.py), the port registry               *)
(* (hal/implementations/hal_manager.py), the InteractionBroker             *)
(* (middleware/broker.py) and the PreconditionService                      *)
(* (services/precondition_service.py).                                     *)
(*                                                                         *)
(* Time.  time.time() is the variable now, counted in ticks of 5 ms, so    *)
(* that the 10 ms sleep of MockCanPort.receive (Sleep = 2 ticks) is        *)
(* coarser than the clock and a timeout need not be a multiple of it.      *)
(* Computation takes no time: the clock advances only in time.sleep.       *)
(*                                                                         *)
(* Python values are tagged records: str [t, s] (s a sequence of           *)
(* characters), int [t, n], NoneType [t].  Optional[float] is <<>> (None) or <<x>>.   *)
(***************************************************************************)
EXTENDS Integers, Sequences, FiniteSets, TLC

VARIABLES
    now,        \* time.time(), in ticks
    can_ports,  \* HalManager._can_ports: bus name -> "absent" or the port class
    rx_queue,   \* MockCanPort._rx_queue of each bus's port
    rcv,        \* the activation of MockCanPort.receive in progress
    brk,        \* the activation of the InteractionBroker operation in progress
    eng,        \* the activation of PreconditionService.apply in progress
    preconditions, \* PreconditionCatalog.preconditions: name -> definition
    actions,    \* PreconditionService._actions: action name -> handler
    calls,      \* number of calls the test thread has made
    injected,   \* history: per bus, the frames appended by inject_message
    received,   \* history: per bus, the frames returned by receive
    sent,       \* history: per bus, the frames handed to send
    hal,        \* a HalManager: its mode, its cache, the ports it constructed, its callers
    chk,        \* the activation of assert_consistent_signals or assert_no_faults in progress
    cod         \* a signal definition and value with the results of _encode and _decode

vars == <<now, can_ports, rx_queue, rcv, brk, eng, preconditions, actions, calls,
          injected, received, sent, hal, chk, cod>>

(***************************************************************************)
(* Bounds of the model.                                                    *)
(***************************************************************************)
StartTime == 50       \* time.time() when the behaviour starts
MaxClock == 60        \* no sleep is started that would end after this
MaxInject == 3        \* inject_message calls per behaviour
MaxCalls == 1         \* broker calls of the test thread per behaviour
MaxReceives == 2      \* receive calls of the test thread per behaviour
MaxTimeout == 2       \* timeouts the test thread passes to the broker: 0..MaxTimeout
MaxPortTimeout == 3   \* timeouts the test thread passes to receive: 0..MaxPortTimeout
MaxSteps == 3         \* steps of a precondition definition
MaxRollback == 2      \* rollback steps of a precondition definition
MaxInitQueue == 1     \* frames injected before apply is called
RunDepth == 8         \* a loop run to completion takes at most 2^RunDepth steps

(***************************************************************************)
(* Program constants, in ticks of 5 ms.                                    *)
(***************************************************************************)
Sleep == 2            \* time.sleep(0.01) in MockCanPort.receive
SubPoll == 20         \* the 0.1 s cap of get_signal's sub-poll
DefaultPolling == 20  \* wait_for_signal's default polling_interval, 0.1 s
StepTimeout == 1000   \* timeout_s=5 of the precondition action handlers

NoneT == <<>>
Some(x) == <<x>>

Min(a, b) == IF a < b THEN a ELSE b
Max(a, b) == IF a > b THEN a ELSE b

(***************************************************************************)
(* Outcomes of a call.                                                     *)
(***************************************************************************)
NoOutcome == [kind |-> "none"]
Return(v) == [kind |-> "return", value |-> v]
Raise(cls, msg) == [kind |-> "raise", exc |-> cls, message |-> msg]

(***************************************************************************)
(* hal/exceptions.py: the exception classes and their base classes.        *)
(***************************************************************************)
HalErrorClasses == {"HalError", "CanError", "CanTimeoutError"}

(***************************************************************************)
(* The buses and frame identifiers of the configuration under test.        *)
(***************************************************************************)
Buses == {"body"}
DoorId == 256
SpeedId == 512
FaultId == 768
CanIds == {DoorId, SpeedId, FaultId}

(***************************************************************************)
(* hal/types/can_types.py                                                  *)
(***************************************************************************)
CanMessage(can_id, data) ==
    [can_id |-> can_id, data |-> data, is_extended_id |-> FALSE, timestamp |-> NoneT]

with_timestamp(message) ==
    [can_id |-> message.can_id,
     data |-> message.data,
     is_extended_id |-> message.is_extended_id,
     timestamp |-> IF message.timestamp = NoneT THEN Some(now) ELSE message.timestamp]

\* The frames the injecting thread passes to inject_message: without a
\* timestamp, and with the timestamp its sender gave it.
InjectFrames ==
    {CanMessage(DoorId, <<0>>), CanMessage(DoorId, <<1>>), CanMessage(SpeedId, <<1>>)}

StampedFrames ==
    {[m EXCEPT !.timestamp = Some(StartTime)] : m \in InjectFrames}

(***************************************************************************)
(* Python values.                                                          *)
(***************************************************************************)
PyStr(s) == [t |-> "str", s |-> s]
PyInt(n) == [t |-> "int", n |-> n]
PyNone == [t |-> "NoneType"]

\* a == b for the value types above: values of different types are unequal.
PyEq(a, b) == a = b

LowerCase == <<"a", "b", "c", "d", "e", "f", "g", "h", "i", "j", "k", "l", "m",
               "n", "o", "p", "q", "r", "s", "t", "u", "v", "w", "x", "y", "z">>
UpperCase == <<"A", "B", "C", "D", "E", "F", "G", "H", "I", "J", "K", "L", "M",
               "N", "O", "P", "Q", "R", "S", "T", "U", "V", "W", "X", "Y", "Z">>
Digits == <<"0", "1", "2", "3", "4", "5", "6", "7", "8", "9">>

IndexOf(c, seq) == CHOOSE i \in 1..Len(seq) : seq[i] = c
Occurs(c, seq) == \E i \in 1..Len(seq) : seq[i] = c

\* str.upper()
str_upper(s) ==
    [i \in 1..Len(s) |-> IF Occurs(s[i], LowerCase)
                         THEN UpperCase[IndexOf(s[i], LowerCase)]
                         ELSE s[i]]

RECURSIVE NatToStr(_)
NatToStr(n) ==
    IF n < 10 THEN <<Digits[n + 1]>>
    ELSE NatToStr(n \div 10) \o <<Digits[(n % 10) + 1]>>

\* str(value)
py_str(value) ==
    CASE value.t = "str" -> value.s
      [] value.t = "int" -> IF value.n < 0 THEN <<"-">> \o NatToStr(-value.n)
                            ELSE NatToStr(value.n)
      [] OTHER -> <<"N", "o", "n", "e">>

RECURSIVE StrToNat(_)
StrToNat(s) ==
    IF s = <<>> THEN 0
    ELSE 10 * StrToNat(SubSeq(s, 1, Len(s) - 1)) + (IndexOf(s[Len(s)], Digits) - 1)

AllDigits(s) == s # <<>> /\ \A i \in 1..Len(s) : Occurs(s[i], Digits)

\* int(value): an int as it is; a str of an optional sign and decimal digits
\* parsed (surrounding blanks and digit-group underscores are not modelled);
\* any other str is a ValueError, None a TypeError.
py_int(value) ==
    CASE value.t = "int" -> Return(value.n)
      [] value.t = "str" ->
            IF AllDigits(value.s) THEN Return(StrToNat(value.s))
            ELSE IF value.s # <<>> /\ value.s[1] \in {"-", "+"} /\ AllDigits(Tail(value.s))
            THEN Return(IF value.s[1] = "-" THEN -StrToNat(Tail(value.s))
                        ELSE StrToNat(Tail(value.s)))
            ELSE Raise("ValueError", <<"invalid literal for int()", value.s>>)
      [] OTHER -> Raise("TypeError", <<"int() argument must be a string or a number">>)

\* int.to_bytes(1, byteorder="big")
to_bytes(n) ==
    IF n >= 0 /\ n <= 255 THEN Return(<<n>>)
    ELSE Raise("OverflowError", <<"int does not fit in one unsigned byte">>)

\* int.from_bytes(data[:1], byteorder="big")
from_bytes(data) == IF data = <<>> THEN 0 ELSE data[1]

(***************************************************************************)
(* config_loader/models.py: the signal catalog under test.  A mapping is   *)
(* the sequence of its (key, value) items in insertion order.              *)
(***************************************************************************)
S_OPEN == <<"O", "P", "E", "N">>
S_CLOSED == <<"C", "L", "O", "S", "E", "D">>
S_open == <<"o", "p", "e", "n">>
S_AJAR == <<"A", "J", "A", "R">>
S_1 == <<"1">>
S_OK == <<"O", "K">>
S_ACTIVE == <<"A", "C", "T", "I", "V", "E">>
S_NONE == <<"N", "O", "N", "E">>
S_INACTIVE == <<"I", "N", "A", "C", "T", "I", "V", "E">>

Signals ==
    [Door |-> [name |-> "Door", bus |-> "body", can_id |-> DoorId,
               payload |-> [type |-> "enum",
                            mapping |-> << <<S_OPEN, 1>>, <<S_CLOSED, 0>> >>]],
     Speed |-> [name |-> "Speed", bus |-> "body", can_id |-> SpeedId,
                payload |-> [type |-> "uint", mapping |-> <<>>]],
     Fault |-> [name |-> "Fault", bus |-> "body", can_id |-> FaultId,
                payload |-> [type |-> "enum",
                             mapping |-> << <<S_OK, 0>>, <<S_ACTIVE, 1>> >>]],
     Hatch |-> [name |-> "Hatch", bus |-> "chassis", can_id |-> DoorId,
                payload |-> [type |-> "enum",
                             mapping |-> << <<S_OPEN, 1>>, <<S_CLOSED, 0>> >>]]]

SignalNames == DOMAIN Signals

\* The names of the signals that live on the given buses.
NamesOn(buses) == {n \in SignalNames : Signals[n].bus \in buses}

\* SignalCatalog.get
SignalCatalog_get(name) ==
    IF name \in SignalNames THEN Return(Signals[name])
    ELSE Raise("KeyError", <<"Signal is not defined in the configuration", name>>)

HasKey(mapping, key) == \E i \in 1..Len(mapping) : mapping[i][1] = key
\* mapping[key]: a dict holds one item per key.
Lookup(mapping, key) == mapping[CHOOSE i \in 1..Len(mapping) : mapping[i][1] = key][2]

(***************************************************************************)
(* InteractionBroker._encode and _decode                                   *)
(***************************************************************************)
_encode(signal_def, value) ==
    LET payload_value ==
            IF signal_def.payload.type = "enum"
            THEN IF HasKey(signal_def.payload.mapping, str_upper(py_str(value)))
                 THEN Return(Lookup(signal_def.payload.mapping, str_upper(py_str(value))))
                 ELSE Raise("ValueError", <<"Value is not valid for signal", value, signal_def.name>>)
            ELSE py_int(value)
    IN  IF payload_value.kind = "raise" THEN payload_value
        ELSE LET data == to_bytes(payload_value.value) IN
             IF data.kind = "raise" THEN data
             ELSE Return(CanMessage(signal_def.can_id, data.value))

\* _decode returning the last matching key of the mapping instead of the first
_decode_last_match(signal_def, message) ==
    LET payload == from_bytes(message.data)
        mapping == signal_def.payload.mapping
        hits == {i \in 1..Len(mapping) : mapping[i][2] = payload}
    IN  IF signal_def.payload.type = "enum" /\ hits # {}
        THEN PyStr(mapping[CHOOSE i \in hits : \A j \in hits : i >= j][1])
        ELSE PyInt(payload)

_decode(signal_def, message) ==
    LET payload == from_bytes(message.data)
        mapping == signal_def.payload.mapping
        hits == {i \in 1..Len(mapping) : mapping[i][2] = payload}
    IN  IF signal_def.payload.type = "enum" /\ hits # {}
        THEN PyStr(mapping[CHOOSE i \in hits : \A j \in hits : i <= j][1])
        ELSE PyInt(payload)

(***************************************************************************)
(* HalManager.get_can_port in MOCK mode: the cache after the call.         *)
(***************************************************************************)
get_can_port(ports, bus_name) ==
    IF ports[bus_name] # "absent"
    THEN ports
    ELSE [ports EXCEPT ![bus_name] = "MockCanPort"]

(***************************************************************************)
(* MockCanPort.inject_message, on the port the registry gives for the bus. *)
(***************************************************************************)
inject_message(bus, message) ==
    /\ Len(injected[bus]) < MaxInject
    /\ can_ports' = get_can_port(can_ports, bus)
    /\ rx_queue' = [rx_queue EXCEPT ![bus] = Append(@, with_timestamp(message))]
    /\ injected' = [injected EXCEPT ![bus] = Append(@, with_timestamp(message))]
    /\ rcv' = IF rcv.pc = "loop" /\ rcv.bus = bus
              THEN [rcv EXCEPT !.avail = TRUE]
              ELSE rcv
    /\ UNCHANGED <<now, brk, eng, preconditions, actions, calls, received, sent, hal, chk, cod>>

\* ReceiveIter with pop() in place of popleft(): the newest frame first.
ReceiveIter_pop(queue, t, start, timeout_s) ==
    IF t - start < timeout_s
    THEN IF queue # <<>>
         THEN [kind |-> "return", value |-> queue[Len(queue)],
               queue |-> SubSeq(queue, 1, Len(queue) - 1), now |-> t]
         ELSE [kind |-> "sleep", queue |-> queue, now |-> t + Sleep]
    ELSE [kind |-> "raise", queue |-> queue, now |-> t]

(***************************************************************************)
(* MockCanPort.receive.  ReceiveIter is one evaluation of the while        *)
(* condition and, when it holds, one pass through the loop body.           *)
(***************************************************************************)
ReceiveIter(queue, t, start, timeout_s) ==
    IF t - start < timeout_s
    THEN IF queue # <<>>
         THEN [kind |-> "return", value |-> Head(queue), queue |-> Tail(queue), now |-> t]
         ELSE [kind |-> "sleep", queue |-> queue, now |-> t + Sleep]
    ELSE [kind |-> "raise", queue |-> queue, now |-> t]

RcvIdle ==
    [pc |-> "idle", caller |-> "none", bus |-> "none", start |-> 0, timeout_s |-> 0,
     outcome |-> NoOutcome, avail |-> FALSE, end |-> 0]

\* The activation record of receive(timeout_s) entered at the current time.
ReceiveEntry(caller, bus, timeout_s) ==
    [pc |-> "loop", caller |-> caller, bus |-> bus, start |-> now,
     timeout_s |-> timeout_s, outcome |-> NoOutcome,
     avail |-> rx_queue[bus] # <<>>, end |-> now]

\* One step of the receive in progress.
receive_step ==
    /\ rcv.pc = "loop"
    /\ LET r == ReceiveIter(rx_queue[rcv.bus], now, rcv.start, rcv.timeout_s) IN
        /\ r.now <= MaxClock
        /\ now' = r.now
        /\ rx_queue' = [rx_queue EXCEPT ![rcv.bus] = r.queue]
        /\ received' = IF r.kind = "return"
                       THEN [received EXCEPT ![rcv.bus] = Append(@, r.value)]
                       ELSE received
        /\ rcv' = CASE r.kind = "return" ->
                         [rcv EXCEPT !.pc = "done", !.outcome = Return(r.value), !.end = r.now]
                    [] r.kind = "raise" ->
                         [rcv EXCEPT !.pc = "done", !.end = r.now,
                                     !.outcome = Raise("CanTimeoutError", <<"Timeout on bus", rcv.bus>>)]
                    [] OTHER -> rcv
    /\ UNCHANGED <<can_ports, brk, eng, preconditions, actions, calls, injected, sent, hal, chk, cod>>

(***************************************************************************)
(* InteractionBroker.  brk is the activation of the operation in progress: *)
(* pc "loop" is the head of the while True loop, pc "recv" the call of     *)
(* can_port.receive(sub), pc "done" the operation's end with its outcome.  *)
(* entry, base, timeouts and discarded are history fields: the time of the *)
(* call, the number of frames the bus's port had returned before it, the   *)
(* CanTimeoutErrors it has handled and the frames it has dropped; port and *)
(* result are the outcomes of get_can_port and of send where the caller    *)
(* records them.                                                           *)
(***************************************************************************)
BrkIdle ==
    [pc |-> "idle", op |-> "none", caller |-> "none", signal_name |-> "none",
     arg |-> PyNone, timeout_s |-> NoneT, polling_interval |-> 0,
     deadline |-> NoneT, sub |-> 0, outcome |-> NoOutcome,
     entry |-> 0, base |-> 0, timeouts |-> 0, discarded |-> 0,
     port |-> NoOutcome, result |-> NoOutcome]

ReadOps == {"get_signal", "assert_signal_equal", "assert_signal_in", "assert_signal_in_range"}

BrkDone(b, outcome) == [b EXCEPT !.pc = "done", !.outcome = outcome]

\* BrokerEntry with the deadline computed as now + (timeout_s or 0): a call
\* without a timeout gets a deadline that has passed as soon as time moves.
BrokerEntry_zero(ports, op, caller, signal_name, arg, timeout_s, polling_interval) ==
    LET signal_def == SignalCatalog_get(signal_name)
        b == [BrkIdle EXCEPT !.op = op, !.caller = caller, !.signal_name = signal_name,
                             !.arg = arg, !.timeout_s = timeout_s,
                             !.polling_interval = polling_interval, !.entry = now]
    IN  IF signal_def.kind = "raise"
        THEN [brk |-> BrkDone(b, signal_def), can_ports |-> ports]
        ELSE [brk |-> [b EXCEPT !.pc = "loop",
                                !.base = Len(received[signal_def.value.bus]),
                                !.deadline = IF timeout_s = NoneT THEN Some(now)
                                             ELSE Some(now + timeout_s[1])],
              can_ports |-> get_can_port(ports, signal_def.value.bus)]

\* Lines 44-46 of wait_for_signal and 80-82 of get_signal: the catalog
\* lookup, the port from the registry and the deadline.  Gives the
\* activation and the registry's cache after these lines.
BrokerEntry(ports, op, caller, signal_name, arg, timeout_s, polling_interval) ==
    LET signal_def == SignalCatalog_get(signal_name)
        b == [BrkIdle EXCEPT !.op = op, !.caller = caller, !.signal_name = signal_name,
                             !.arg = arg, !.timeout_s = timeout_s,
                             !.polling_interval = polling_interval, !.entry = now]
    IN  IF signal_def.kind = "raise"
        THEN [brk |-> BrkDone(b, signal_def), can_ports |-> ports]
        ELSE [brk |-> [b EXCEPT !.pc = "loop",
                                !.base = Len(received[signal_def.value.bus]),
                                !.deadline = IF timeout_s = NoneT THEN NoneT
                                             ELSE Some(now + timeout_s[1])],
              can_ports |-> get_can_port(ports, signal_def.value.bus)]

\* bool(deadline): None and 0.0 are false.
Truthy(deadline) == deadline # NoneT /\ deadline[1] # 0

\* wait_for_signal_head without the deadline check at the head of the loop:
\* the deadline is looked at only after a port timeout.
wait_for_signal_head_unchecked(b, t) ==
    [b EXCEPT !.pc = "recv", !.sub = b.polling_interval]

\* wait_for_signal_head with the deadline computed anew at each iteration of
\* the loop instead of once at call entry.
wait_for_signal_head_sliding(b, t) ==
    [b EXCEPT !.pc = "recv", !.sub = b.polling_interval,
              !.deadline = IF b.timeout_s = NoneT THEN NoneT ELSE Some(t + b.timeout_s[1])]

\* wait_for_signal, lines 49-54, at time t: the deadline check, then the
\* call of can_port.receive(timeout_s=polling_interval).
wait_for_signal_head(b, t) ==
    IF Truthy(b.deadline) /\ t > b.deadline[1]
    THEN BrkDone(b, Raise("SutFault",
                 <<"System did not produce signal before timeout", b.signal_name>>))
    ELSE [b EXCEPT !.pc = "recv", !.sub = b.polling_interval]

\* wait_for_signal_tail without the comparison with the expected value: any
\* frame of the signal ends the wait.
wait_for_signal_tail_anyvalue(b, outcome, t) ==
    LET signal_def == Signals[b.signal_name] IN
    IF outcome.kind = "raise"
    THEN IF outcome.exc = "CanTimeoutError"
         THEN IF b.deadline = NoneT
              THEN [b EXCEPT !.pc = "loop", !.timeouts = @ + 1]
              ELSE IF t > b.deadline[1]
              THEN BrkDone([b EXCEPT !.timeouts = @ + 1], Raise("SutFault",
                           <<"Timeout waiting for signal on bus", b.signal_name>>))
              ELSE [b EXCEPT !.pc = "loop", !.timeouts = @ + 1]
         ELSE IF outcome.exc \in HalErrorClasses
         THEN BrkDone(b, Raise("EnvironmentFault",
                      <<"HAL failure while waiting for", b.signal_name>>))
         ELSE BrkDone(b, outcome)
    ELSE IF outcome.value.can_id # signal_def.can_id
         THEN [b EXCEPT !.pc = "loop", !.discarded = @ + 1]
         ELSE BrkDone(b, Return(PyNone))

\* wait_for_signal, lines 55-75, at time t: what follows the end of
\* can_port.receive with the given outcome.
wait_for_signal_tail(b, outcome, t) ==
    LET signal_def == Signals[b.signal_name] IN
    IF outcome.kind = "raise"
    THEN IF outcome.exc = "CanTimeoutError"
         THEN IF b.deadline = NoneT
              THEN [b EXCEPT !.pc = "loop", !.timeouts = @ + 1]
              ELSE IF t > b.deadline[1]
              THEN BrkDone([b EXCEPT !.timeouts = @ + 1], Raise("SutFault",
                           <<"Timeout waiting for signal on bus", b.signal_name>>))
              ELSE [b EXCEPT !.pc = "loop", !.timeouts = @ + 1]
         ELSE IF outcome.exc \in HalErrorClasses
         THEN BrkDone(b, Raise("EnvironmentFault",
                      <<"HAL failure while waiting for", b.signal_name>>))
         ELSE BrkDone(b, outcome)
    ELSE IF outcome.value.can_id # signal_def.can_id
         THEN [b EXCEPT !.pc = "loop", !.discarded = @ + 1]
         ELSE IF PyEq(_decode(signal_def, outcome.value), b.arg)
         THEN BrkDone(b, Return(PyNone))
         ELSE [b EXCEPT !.pc = "loop", !.discarded = @ + 1]

\* get_signal_head with the sub-poll not capped by the remaining budget.
get_signal_head_uncapped(b, t) ==
    LET remaining == Max(b.deadline[1] - t, 0) IN
    IF remaining <= 0
    THEN BrkDone(b, Raise("SutFault",
                 <<"Did not observe signal before timeout", b.signal_name>>))
    ELSE [b EXCEPT !.pc = "recv", !.sub = SubPoll]

\* get_signal_head with a first receive of 0.1 s made before the remaining
\* budget is looked at.
get_signal_head_receive_first(b, t) ==
    LET remaining == Max(b.deadline[1] - t, 0) IN
    IF b.timeouts + b.discarded = 0
    THEN [b EXCEPT !.pc = "recv", !.sub = SubPoll]
    ELSE IF remaining <= 0
    THEN BrkDone(b, Raise("SutFault",
                 <<"Did not observe signal before timeout", b.signal_name>>))
    ELSE [b EXCEPT !.pc = "recv", !.sub = Min(remaining, SubPoll)]

\* get_signal, lines 85-89, at time t: the remaining budget, then the call
\* of can_port.receive(timeout_s=min(remaining, 0.1)).
get_signal_head(b, t) ==
    LET remaining == Max(b.deadline[1] - t, 0) IN
    IF remaining <= 0
    THEN BrkDone(b, Raise("SutFault",
                 <<"Did not observe signal before timeout", b.signal_name>>))
    ELSE [b EXCEPT !.pc = "recv", !.sub = Min(remaining, SubPoll)]

\* float(observed)
py_float(value) ==
    CASE value.t = "int" -> Return(value.n)
      [] value.t = "str" ->
            IF AllDigits(value.s) THEN Return(StrToNat(value.s))
            ELSE Raise("ValueError", <<"could not convert string to float", value.s>>)
      [] OTHER -> Raise("TypeError", <<"float() argument must be a string or a number">>)

\* observed in expected_values
PyIn(observed, expected_values) ==
    \E i \in 1..Len(expected_values) : PyEq(observed, expected_values[i])

\* assert_signal_equal, lines 109-112
assert_signal_equal(b, observed) ==
    IF ~PyEq(observed, b.arg)
    THEN BrkDone(b, Raise("SutFault",
                 <<"Signal expected but observed", b.signal_name, b.arg, observed>>))
    ELSE BrkDone(b, Return(PyNone))

\* assert_signal_in, lines 120-124
assert_signal_in(b, observed) ==
    IF ~PyIn(observed, b.arg)
    THEN BrkDone(b, Raise("SutFault",
                 <<"Signal expected to be in but was", b.signal_name, b.arg, observed>>))
    ELSE BrkDone(b, Return(PyNone))

\* assert_signal_in_range with the bounds excluded.
assert_signal_in_range_strict(b, observed) ==
    LET x == py_float(observed) IN
    IF x.kind = "raise" THEN BrkDone(b, x)
    ELSE IF ~(b.arg[1] < x.value /\ x.value < b.arg[2])
    THEN BrkDone(b, Raise("SutFault",
                 <<"Signal expected between but was", b.signal_name, b.arg, observed>>))
    ELSE BrkDone(b, Return(PyNone))

\* assert_signal_in_range, lines 136-139; arg is <<minimum, maximum>>.
assert_signal_in_range(b, observed) ==
    LET x == py_float(observed) IN
    IF x.kind = "raise" THEN BrkDone(b, x)
    ELSE IF ~(b.arg[1] <= x.value /\ x.value <= b.arg[2])
    THEN BrkDone(b, Raise("SutFault",
                 <<"Signal expected between but was", b.signal_name, b.arg, observed>>))
    ELSE BrkDone(b, Return(PyNone))

\* What the operation that called get_signal does with the value read.
AfterGetSignal(b, value) ==
    CASE b.op = "get_signal" -> BrkDone(b, Return(value))
      [] b.op = "assert_signal_equal" -> assert_signal_equal(b, value)
      [] b.op = "assert_signal_in" -> assert_signal_in(b, value)
      [] b.op = "assert_signal_in_range" -> assert_signal_in_range(b, value)

\* get_signal_tail without the comparison of frame identifiers: the next
\* frame, whatever its identifier, is decoded as the signal.
get_signal_tail_anyid(b, outcome, t) ==
    LET signal_def == Signals[b.signal_name] IN
    IF outcome.kind = "raise"
    THEN IF outcome.exc = "CanTimeoutError"
         THEN [b EXCEPT !.pc = "loop", !.timeouts = @ + 1]
         ELSE IF outcome.exc \in HalErrorClasses
         THEN BrkDone(b, Raise("EnvironmentFault",
                      <<"HAL failure while reading", b.signal_name>>))
         ELSE BrkDone(b, outcome)
    ELSE AfterGetSignal(b, _decode(signal_def, outcome.value))

\* get_signal, lines 90-103: what follows the end of can_port.receive.
get_signal_tail(b, outcome, t) ==
    LET signal_def == Signals[b.signal_name] IN
    IF outcome.kind = "raise"
    THEN IF outcome.exc = "CanTimeoutError"
         THEN [b EXCEPT !.pc = "loop", !.timeouts = @ + 1]
         ELSE IF outcome.exc \in HalErrorClasses
         THEN BrkDone(b, Raise("EnvironmentFault",
                      <<"HAL failure while reading", b.signal_name>>))
         ELSE BrkDone(b, outcome)
    ELSE IF outcome.value.can_id # signal_def.can_id
         THEN [b EXCEPT !.pc = "loop", !.discarded = @ + 1]
         ELSE AfterGetSignal(b, _decode(signal_def, outcome.value))

LoopHead(b, t) ==
    IF b.op = "wait_for_signal" THEN wait_for_signal_head(b, t) ELSE get_signal_head(b, t)

LoopTail(b, outcome, t) ==
    IF b.op = "wait_for_signal" THEN wait_for_signal_tail(b, outcome, t)
    ELSE get_signal_tail(b, outcome, t)

(***************************************************************************)
(* The broker's steps when other threads run between them.                 *)
(***************************************************************************)
\* wait_for_signal_loop receiving from whichever port has a frame queued.
wait_for_signal_loop_anybus ==
    /\ brk.pc = "loop"
    /\ brk.op = "wait_for_signal"
    /\ brk' = wait_for_signal_head(brk, now)
    /\ LET bus == IF \E b \in DOMAIN rx_queue : rx_queue[b] # <<>>
                  THEN CHOOSE b \in DOMAIN rx_queue : rx_queue[b] # <<>>
                  ELSE Signals[brk.signal_name].bus
       IN  rcv' = IF brk'.pc = "recv" THEN ReceiveEntry("broker", bus, brk'.sub) ELSE rcv
    /\ UNCHANGED <<now, can_ports, rx_queue, eng, preconditions, actions, calls, injected, received, sent, hal, chk, cod>>

wait_for_signal_loop ==
    /\ brk.pc = "loop"
    /\ brk.op = "wait_for_signal"
    /\ brk' = wait_for_signal_head(brk, now)
    /\ rcv' = IF brk'.pc = "recv"
              THEN ReceiveEntry("broker", Signals[brk.signal_name].bus, brk'.sub)
              ELSE rcv
    /\ UNCHANGED <<now, can_ports, rx_queue, eng, preconditions, actions, calls, injected, received, sent, hal, chk, cod>>

wait_for_signal_recv ==
    /\ brk.pc = "recv"
    /\ brk.op = "wait_for_signal"
    /\ rcv.pc = "done"
    /\ brk' = wait_for_signal_tail(brk, rcv.outcome, now)
    /\ UNCHANGED <<now, can_ports, rx_queue, rcv, eng, preconditions, actions, calls, injected, received, sent, hal, chk, cod>>

get_signal_loop ==
    /\ brk.pc = "loop"
    /\ brk.op \in ReadOps
    /\ brk' = get_signal_head(brk, now)
    /\ rcv' = IF brk'.pc = "recv"
              THEN ReceiveEntry("broker", Signals[brk.signal_name].bus, brk'.sub)
              ELSE rcv
    /\ UNCHANGED <<now, can_ports, rx_queue, eng, preconditions, actions, calls, injected, received, sent, hal, chk, cod>>

get_signal_recv ==
    /\ brk.pc = "recv"
    /\ brk.op \in ReadOps
    /\ rcv.pc = "done"
    /\ brk' = get_signal_tail(brk, rcv.outcome, now)
    /\ UNCHANGED <<now, can_ports, rx_queue, rcv, eng, preconditions, actions, calls, injected, received, sent, hal, chk, cod>>

(***************************************************************************)
(* The test thread.                                                        *)
(***************************************************************************)
TestIdle == rcv.pc \in {"idle", "done"} /\ brk.pc \in {"idle", "done"}

Timeouts == 0..MaxTimeout

\* hal.get_can_port(bus).receive(timeout_s), called by the test thread.
call_receive(bus, timeout_s) ==
    /\ TestIdle
    /\ calls < MaxReceives
    /\ calls' = calls + 1
    /\ can_ports' = get_can_port(can_ports, bus)
    /\ rcv' = ReceiveEntry("test", bus, timeout_s)
    /\ brk' = BrkIdle
    /\ UNCHANGED <<now, rx_queue, eng, preconditions, actions, injected, received, sent, hal, chk, cod>>

\* broker.wait_for_signal(name, expected, timeout_s, polling_interval),
\* called by the test thread.
call_wait_for_signal(name, expected, timeout_s, polling_interval) ==
    /\ TestIdle
    /\ calls < MaxCalls
    /\ calls' = calls + 1
    /\ LET e == BrokerEntry(can_ports, "wait_for_signal", "test", name, expected,
                            timeout_s, polling_interval) IN
        /\ brk' = e.brk
        /\ can_ports' = e.can_ports
    /\ rcv' = RcvIdle
    /\ UNCHANGED <<now, rx_queue, eng, preconditions, actions, injected, received, sent, hal, chk, cod>>

\* broker.get_signal(name, timeout_s), called by the test thread.
call_get_signal(name, timeout_s) ==
    /\ TestIdle
    /\ calls < MaxCalls
    /\ calls' = calls + 1
    /\ LET e == BrokerEntry(can_ports, "get_signal", "test", name, PyNone,
                            Some(timeout_s), 0) IN
        /\ brk' = e.brk
        /\ can_ports' = e.can_ports
    /\ rcv' = RcvIdle
    /\ UNCHANGED <<now, rx_queue, eng, preconditions, actions, injected, received, sent, hal, chk, cod>>

\* The arguments the test thread passes.
TestNames == {"Door", "Speed", "Ghost"}
ExpectedValues == {PyStr(S_OPEN), PyInt(1)}
WaitTimeouts == {NoneT} \cup {Some(t) : t \in Timeouts}
Pollings == {1, 3}
GetTimeouts == Timeouts \cup {SubPoll + 1} \cup {-1}

(***************************************************************************)
(* Run to completion: the operations as one thread executes them when no   *)
(* other thread runs in between.                                           *)
(***************************************************************************)
\* MockCanPort.receive(timeout_s) entered at time start: the whole loop.
RECURSIVE receive(_, _, _, _)
receive(queue, t, start, timeout_s) ==
    LET r == ReceiveIter(queue, t, start, timeout_s) IN
    IF r.kind = "sleep" THEN receive(r.queue, r.now, start, timeout_s) ELSE r

ReceiveOutcome(r, bus) ==
    IF r.kind = "return" THEN Return(r.value)
    ELSE Raise("CanTimeoutError", <<"Timeout on bus", bus>>)

\* One step of the while True loop of wait_for_signal or get_signal when the
\* thread runs alone: from pc "loop" the head of the loop, from pc "recv"
\* the whole of can_port.receive(sub) and what follows it.  m holds the
\* activation, the port's queue, the time and the frames the port returned.
BrokerStep(m) ==
    IF m.brk.pc = "loop"
    THEN [m EXCEPT !.brk = LoopHead(m.brk, m.now)]
    ELSE LET r == receive(m.queue, m.now, m.now, m.brk.sub)
             bus == Signals[m.brk.signal_name].bus
         IN  [brk |-> LoopTail(m.brk, ReceiveOutcome(r, bus), r.now),
              queue |-> r.queue,
              now |-> r.now,
              received |-> IF r.kind = "return" THEN Append(m.received, r.value)
                           ELSE m.received]

\* BrokerStep repeated until the operation is done, at most 2^k times.
RECURSIVE RunBroker(_, _)
RunBroker(m, k) ==
    IF m.brk.pc = "done" THEN m
    ELSE IF k = 0 THEN BrokerStep(m)
    ELSE RunBroker(RunBroker(m, k - 1), k - 1)

\* The state a call leaves behind, with its outcome.
World(outcome, t, ports, queues, recd, snt, b) ==
    [outcome |-> outcome, now |-> t, can_ports |-> ports, rx_queue |-> queues,
     received |-> recd, sent |-> snt, brk |-> b]

\* wait_for_signal, get_signal and the assertions, called in the current state.
read_signal(op, signal_name, arg, timeout_s, polling_interval) ==
    LET e == BrokerEntry(can_ports, op, "engine", signal_name, arg, timeout_s, polling_interval) IN
    IF e.brk.pc = "done"
    THEN World(e.brk.outcome, now, e.can_ports, rx_queue, received, sent, e.brk)
    ELSE LET bus == Signals[signal_name].bus
             r == RunBroker([brk |-> e.brk, queue |-> rx_queue[bus], now |-> now,
                             received |-> received[bus]], RunDepth)
         IN  World(r.brk.outcome, r.now, e.can_ports,
                   [rx_queue EXCEPT ![bus] = r.queue],
                   [received EXCEPT ![bus] = r.received], sent, r.brk)

\* MockCanPort.send
MockCanPort_send(message) == [success |-> TRUE, error_message |-> NoneT, timestamp |-> Some(now)]

\* set_signal on a port whose send puts the frame into its own receive
\* queue.
set_signal_loopback(signal_name, value) ==
    LET signal_def == SignalCatalog_get(signal_name)
        b == [BrkIdle EXCEPT !.op = "set_signal", !.caller = "engine",
                             !.signal_name = signal_name, !.arg = value, !.entry = now]
    IN  IF signal_def.kind = "raise"
        THEN World(signal_def, now, can_ports, rx_queue, received, sent, BrkDone(b, signal_def))
        ELSE LET ports == get_can_port(can_ports, signal_def.value.bus)
                 message == _encode(signal_def.value, value)
             IN  IF message.kind = "raise"
                 THEN World(message, now, ports, rx_queue, received, sent, BrkDone(b, message))
                 ELSE World(Return(PyNone), now, ports,
                            [rx_queue EXCEPT ![signal_def.value.bus] = Append(@, message.value)],
                            received,
                            [sent EXCEPT ![signal_def.value.bus] = Append(@, message.value)],
                            BrkDone(b, Return(PyNone)))

\* InteractionBroker.set_signal, called in the current state.
set_signal(signal_name, value) ==
    LET signal_def == SignalCatalog_get(signal_name)
        b == [BrkIdle EXCEPT !.op = "set_signal", !.caller = "engine",
                             !.signal_name = signal_name, !.arg = value, !.entry = now]
    IN  IF signal_def.kind = "raise"
        THEN World(signal_def, now, can_ports, rx_queue, received, sent, BrkDone(b, signal_def))
        ELSE LET ports == get_can_port(can_ports, signal_def.value.bus)
                 message == _encode(signal_def.value, value)
             IN  IF message.kind = "raise"
                 THEN World(message, now, ports, rx_queue, received, sent, BrkDone(b, message))
                 ELSE LET result == MockCanPort_send(message.value)
                          snt == [sent EXCEPT ![signal_def.value.bus] = Append(@, message.value)]
                          out == IF ~result.success
                                 THEN Raise("EnvironmentFault",
                                            <<"Transmission on bus failed", signal_def.value.bus>>)
                                 ELSE Return(PyNone)
                      IN  World(out, now, ports, rx_queue, received, snt, BrkDone(b, out))

(***************************************************************************)
(* PreconditionService                                                     *)
(***************************************************************************)
BuiltinActions ==
    [set_signal |-> "_set_signal",
     wait_for_signal |-> "_wait_for_signal",
     assert_signal |-> "_assert_signal",
     assert_signal_in |-> "_assert_signal_in",
     assert_signal_range |-> "_assert_signal_range"]

\* A failure before any broker call: nothing but the outcome changes.
Failed(outcome) == World(outcome, now, can_ports, rx_queue, received, sent, brk)

_set_signal(target, value) == set_signal(target, value)

_wait_for_signal(target, value) ==
    read_signal("wait_for_signal", target, value, Some(StepTimeout), DefaultPolling)

_assert_signal(target, value) ==
    read_signal("assert_signal_equal", target, value, Some(StepTimeout), 0)

\* A step's value is a str or None, never a list, tuple or set.
_assert_signal_in(target, value) ==
    read_signal("assert_signal_in", target, <<value>>, Some(StepTimeout), 0)

\* A step's value is a str or None, never a dict.
_assert_signal_range(target, value) ==
    Failed(Raise("ValueError", <<"assert_signal_range requires a mapping with 'min' and 'max'">>))

\* Handlers a test registers besides the service's own: one that returns
\* and touches nothing, and one that raises with the arguments it was given.
handler_noop(target, value) ==
    World(Return(PyNone), now, can_ports, rx_queue, received, sent, brk)

handler_raise(target, value) == Failed(Raise("RuntimeError", <<target, value>>))

\* PreconditionService._dispatch
_dispatch(action, target, value) ==
    IF action \notin DOMAIN actions
    THEN Failed(Raise("KeyError", <<"Unsupported precondition action", action>>))
    ELSE CASE actions[action] = "_set_signal" -> _set_signal(target, value)
           [] actions[action] = "_wait_for_signal" -> _wait_for_signal(target, value)
           [] actions[action] = "_assert_signal" -> _assert_signal(target, value)
           [] actions[action] = "_assert_signal_in" -> _assert_signal_in(target, value)
           [] actions[action] = "_assert_signal_range" -> _assert_signal_range(target, value)
           [] actions[action] = "handler_noop" -> handler_noop(target, value)
           [] actions[action] = "handler_raise" -> handler_raise(target, value)

\* PreconditionCatalog.get falling back on a definition of the catalog when
\* the name is absent.
PreconditionCatalog_get_fallback(name) ==
    Return(preconditions[IF name \in DOMAIN preconditions THEN name
                         ELSE CHOOSE n \in DOMAIN preconditions : TRUE])

\* PreconditionCatalog.get
PreconditionCatalog_get(name) ==
    IF name \in DOMAIN preconditions THEN Return(preconditions[name])
    ELSE Raise("KeyError", <<"Precondition is not defined in the configuration", name>>)

(***************************************************************************)
(* eng is the activation of apply: pc "steps" is the for loop over         *)
(* definition.steps with i the next step, pc "rollback" the except clause  *)
(* inside _rollback with j the next rollback step and exc the exception    *)
(* caught.  log is a history field: the steps dispatched so far, each with *)
(* what its handler returned or raised.                                    *)
(***************************************************************************)
EngIdle ==
    [pc |-> "idle", name |-> "none", definition |-> <<>>, i |-> 0, j |-> 0,
     exc |-> NoOutcome, outcome |-> NoOutcome, log |-> <<>>]

Dispatched(phase, index, step, outcome) ==
    [phase |-> phase, index |-> index, step |-> step, outcome |-> outcome]

SetWorld(w) ==
    /\ now' = w.now
    /\ can_ports' = w.can_ports
    /\ rx_queue' = w.rx_queue
    /\ received' = w.received
    /\ sent' = w.sent
    /\ brk' = w.brk

\* register_action keeping the handler a name already has.
register_action_setdefault(name, handler) ==
    /\ eng.pc = "idle"
    /\ calls' = calls + 1
    /\ actions' = [n \in DOMAIN actions \cup {name} |->
                      IF n \in DOMAIN actions THEN actions[n] ELSE handler]
    /\ UNCHANGED <<now, can_ports, rx_queue, rcv, brk, eng, preconditions,
                   injected, received, sent, hal, chk, cod>>

\* PreconditionService.register_action, called by the test before apply:
\* self._actions[name] = handler
register_action(name, handler) ==
    /\ eng.pc = "idle"
    /\ calls' = calls + 1
    /\ actions' = [n \in DOMAIN actions \cup {name} |->
                      IF n = name THEN handler ELSE actions[n]]
    /\ UNCHANGED <<now, can_ports, rx_queue, rcv, brk, eng, preconditions,
                   injected, received, sent, hal, chk, cod>>

\* apply, lines 33-34
call_apply(name) ==
    /\ eng.pc = "idle"
    /\ LET definition == PreconditionCatalog_get(name) IN
       eng' = IF definition.kind = "raise"
              THEN [EngIdle EXCEPT !.pc = "done", !.name = name, !.outcome = definition]
              ELSE [EngIdle EXCEPT !.pc = "steps", !.name = name,
                                   !.definition = definition.value, !.i = 1]
    /\ UNCHANGED <<now, can_ports, rx_queue, rcv, brk, preconditions, actions, calls,
                   injected, received, sent, hal, chk, cod>>

\* apply, lines 36-39: one pass of the for loop; a step that raises enters
\* the except clause.
apply_step ==
    /\ eng.pc = "steps"
    /\ eng.i <= Len(eng.definition.steps)
    /\ LET step == eng.definition.steps[eng.i]
           w == _dispatch(step.action, step.target, step.value)
           e == [eng EXCEPT !.log = Append(@, Dispatched("steps", eng.i, step, w.outcome))]
       IN  /\ SetWorld(w)
           /\ eng' = IF w.outcome.kind = "raise"
                     THEN [e EXCEPT !.pc = "rollback", !.exc = w.outcome, !.j = 1]
                     ELSE [e EXCEPT !.i = @ + 1]
    /\ UNCHANGED <<rcv, preconditions, actions, calls, injected, hal, chk, cod>>

\* apply_return with the rollback in a finally clause: it runs after the
\* last step too.
apply_return_finally ==
    /\ eng.pc = "steps"
    /\ eng.i > Len(eng.definition.steps)
    /\ eng' = [eng EXCEPT !.pc = "rollback", !.j = 1]
    /\ UNCHANGED <<now, can_ports, rx_queue, rcv, brk, preconditions, actions, calls,
                   injected, received, sent, hal, chk, cod>>

\* apply, after the last step: the call returns.
apply_return ==
    /\ eng.pc = "steps"
    /\ eng.i > Len(eng.definition.steps)
    /\ eng' = [eng EXCEPT !.pc = "done", !.outcome = Return(PyNone)]
    /\ UNCHANGED <<now, can_ports, rx_queue, rcv, brk, preconditions, actions, calls,
                   injected, received, sent, hal, chk, cod>>

\* rollback_step undoing in reverse order: the last declared step first.
rollback_step_reversed ==
    /\ eng.pc = "rollback"
    /\ eng.j <= Len(eng.definition.rollback)
    /\ LET step == eng.definition.rollback[Len(eng.definition.rollback) + 1 - eng.j]
           w == _dispatch(step.action, step.target, step.value)
       IN  /\ SetWorld(w)
           /\ eng' = [eng EXCEPT !.j = @ + 1,
                                 !.log = Append(@, Dispatched("rollback", eng.j, step, w.outcome))]
    /\ UNCHANGED <<rcv, preconditions, actions, calls, injected, hal, chk, cod>>

\* rollback_step without the try around the step: a rollback step that
\* raises ends the rollback, and its exception replaces the one caught.
rollback_step_abort ==
    /\ eng.pc = "rollback"
    /\ eng.j <= Len(eng.definition.rollback)
    /\ LET step == eng.definition.rollback[eng.j]
           w == _dispatch(step.action, step.target, step.value)
           e == [eng EXCEPT !.log = Append(@, Dispatched("rollback", eng.j, step, w.outcome))]
       IN  /\ SetWorld(w)
           /\ eng' = IF w.outcome.kind = "raise"
                     THEN [e EXCEPT !.j = Len(eng.definition.rollback) + 1,
                                    !.exc = w.outcome]
                     ELSE [e EXCEPT !.j = @ + 1]
    /\ UNCHANGED <<rcv, preconditions, actions, calls, injected, hal, chk, cod>>

\* _rollback, lines 78-82: one pass of the for loop; what the step raises is
\* logged and dropped.
rollback_step ==
    /\ eng.pc = "rollback"
    /\ eng.j <= Len(eng.definition.rollback)
    /\ LET step == eng.definition.rollback[eng.j]
           w == _dispatch(step.action, step.target, step.value)
       IN  /\ SetWorld(w)
           /\ eng' = [eng EXCEPT !.j = @ + 1,
                                 !.log = Append(@, Dispatched("rollback", eng.j, step, w.outcome))]
    /\ UNCHANGED <<rcv, preconditions, actions, calls, injected, hal, chk, cod>>

\* apply_raise with nothing raised when there was nothing to roll back.
apply_raise_swallow ==
    /\ eng.pc = "rollback"
    /\ eng.j > Len(eng.definition.rollback)
    /\ eng' = [eng EXCEPT !.pc = "done",
                          !.outcome = IF eng.definition.rollback = <<>>
                                      THEN Return(PyNone)
                                      ELSE [kind |-> "raise", exc |-> "EnvironmentFault",
                                            message |-> <<"Precondition failed", eng.name, eng.exc.message>>,
                                            cause |-> eng.exc]]
    /\ UNCHANGED <<now, can_ports, rx_queue, rcv, brk, preconditions, actions, calls,
                   injected, received, sent, hal, chk, cod>>

\* _rollback returns (at once when definition.rollback is empty, line 75);
\* apply, line 41: raise EnvironmentFault(...) from exc.
apply_raise ==
    /\ eng.pc = "rollback"
    /\ eng.j > Len(eng.definition.rollback)
    /\ eng' = [eng EXCEPT !.pc = "done",
                          !.outcome = [kind |-> "raise", exc |-> "EnvironmentFault",
                                       message |-> <<"Precondition failed", eng.name, eng.exc.message>>,
                                       cause |-> eng.exc]]
    /\ UNCHANGED <<now, can_ports, rx_queue, rcv, brk, preconditions, actions, calls,
                   injected, received, sent, hal, chk, cod>>

(***************************************************************************)
(* hal/implementations/hal_manager.py: the HalManager on its own, called   *)
(* by the threads of RegistryThreads.  A port instance is its index in     *)
(* hal.made, the sequence of the ports constructed so far; 0 stands for    *)
(* "no entry" in the cache.  A thread switch can fall between any two      *)
(* statements of get_can_port, so a call is three steps: the membership    *)
(* test, the construction, the store.                                      *)
(***************************************************************************)
MaxPortCalls == 3

RegistryThreads == {"t1", "t2"}
RegistryBuses == {"body", "chassis"}

M_HIL == <<"H", "I", "L">>
M_MOCK == <<"M", "O", "C", "K">>
M_SIL == <<"S", "I", "L">>

\* The mode strings handed to the constructor.
ModeStrings == {<<"m", "o", "c", "k">>, M_SIL, <<"H", "i", "l">>, <<"l", "a", "b">>}

ThreadIdle == [pc |-> "idle", bus |-> "", port |-> 0, outcome |-> NoOutcome]

\* HalManager.__init__ storing the mode string as it was given.
HalManager_init_verbatim(mode) ==
    Return([mode |-> mode,
            can_ports |-> [b \in RegistryBuses |-> 0],
            made |-> <<>>,
            ncalls |-> 0,
            thr |-> [t \in RegistryThreads |-> ThreadIdle]])

\* HalManager.__init__: stores the upper-cased mode and an empty cache.
HalManager_init(mode) ==
    Return([mode |-> str_upper(mode),
            can_ports |-> [b \in RegistryBuses |-> 0],
            made |-> <<>>,
            ncalls |-> 0,
            thr |-> [t \in RegistryThreads |-> ThreadIdle]])

NoHal ==
    [mode |-> <<>>, can_ports |-> [b \in RegistryBuses |-> 0], made |-> <<>>,
     ncalls |-> 0, thr |-> [t \in RegistryThreads |-> ThreadIdle]]

\* HilCanPort.__init__: python-can missing or the bus failing to open raises
\* CanError; hw says whether the hardware opens.
HilCanPort_init(bus_name, hw) ==
    IF hw = "up"
    THEN Return([bus |-> bus_name, cls |-> "HilCanPort"])
    ELSE Raise("CanError", "Failed to initialise CAN bus")

\* The mode dispatch of get_can_port: the port constructed for a bus, or
\* the error raised.
new_port(mode, bus_name, hw) ==
    IF mode = M_HIL THEN HilCanPort_init(bus_name, hw)
    ELSE IF mode \in {M_MOCK, M_SIL}
    THEN Return([bus |-> bus_name, cls |-> "MockCanPort"])
    ELSE Raise("CanError", "Unsupported execution mode")

\* A thread enters get_can_port(bus_name).
hal_call(t, bus_name) ==
    /\ hal.thr[t].pc \in {"idle", "done"}
    /\ hal.ncalls < MaxPortCalls
    /\ hal' = [hal EXCEPT !.ncalls = @ + 1,
                          !.thr[t] = [pc |-> "check", bus |-> bus_name, port |-> 0,
                                      outcome |-> NoOutcome]]
    /\ UNCHANGED <<now, can_ports, rx_queue, rcv, brk, eng, preconditions, actions, calls,
                   injected, received, sent, chk, cod>>

\* `if bus_name in self._can_ports: return self._can_ports[bus_name]`
hal_check_never_cached(t) ==
    /\ hal.thr[t].pc = "check"
    /\ hal' = [hal EXCEPT !.thr[t].pc = "create"]
    /\ UNCHANGED <<now, can_ports, rx_queue, rcv, brk, eng, preconditions, actions, calls,
                   injected, received, sent, chk, cod>>

hal_check(t) ==
    /\ hal.thr[t].pc = "check"
    /\ LET a == hal.thr[t] IN
         hal' = IF hal.can_ports[a.bus] # 0
                THEN [hal EXCEPT !.thr[t].pc = "done",
                                 !.thr[t].port = hal.can_ports[a.bus],
                                 !.thr[t].outcome = Return(hal.can_ports[a.bus])]
                ELSE [hal EXCEPT !.thr[t].pc = "create"]
    /\ UNCHANGED <<now, can_ports, rx_queue, rcv, brk, eng, preconditions, actions, calls,
                   injected, received, sent, chk, cod>>

\* hal_create storing the new port under the bus name before it is opened:
\* a port that failed to open stays in the cache.
hal_create_store_first(t, hw) ==
    /\ hal.thr[t].pc = "create"
    /\ LET a == hal.thr[t]
           p == new_port(hal.mode, a.bus, hw) IN
         hal' = IF p.kind = "return"
                THEN [hal EXCEPT !.made = Append(@, p.value),
                                 !.thr[t].pc = "store",
                                 !.thr[t].port = Len(hal.made) + 1]
                ELSE [hal EXCEPT !.made = Append(@, [bus |-> a.bus, cls |-> "HilCanPort"]),
                                 !.can_ports[a.bus] = Len(hal.made) + 1,
                                 !.thr[t].pc = "done", !.thr[t].outcome = p]
    /\ UNCHANGED <<now, can_ports, rx_queue, rcv, brk, eng, preconditions, actions, calls,
                   injected, received, sent, chk, cod>>

\* The configuration lookup and the construction of the port, or the raise.
hal_create(t, hw) ==
    /\ hal.thr[t].pc = "create"
    /\ LET a == hal.thr[t]
           p == new_port(hal.mode, a.bus, hw) IN
         hal' = IF p.kind = "return"
                THEN [hal EXCEPT !.made = Append(@, p.value),
                                 !.thr[t].pc = "store",
                                 !.thr[t].port = Len(hal.made) + 1]
                ELSE [hal EXCEPT !.thr[t].pc = "done", !.thr[t].outcome = p]
    /\ UNCHANGED <<now, can_ports, rx_queue, rcv, brk, eng, preconditions, actions, calls,
                   injected, received, sent, chk, cod>>

\* `self._can_ports[bus_name] = port; return port`
hal_store(t) ==
    /\ hal.thr[t].pc = "store"
    /\ LET a == hal.thr[t] IN
         hal' = [hal EXCEPT !.can_ports[a.bus] = a.port,
                            !.thr[t].pc = "done",
                            !.thr[t].outcome = Return(a.port)]
    /\ UNCHANGED <<now, can_ports, rx_queue, rcv, brk, eng, preconditions, actions, calls,
                   injected, received, sent, chk, cod>>

\* No call of get_can_port is in progress.
HalQuiet == \A t \in RegistryThreads : hal.thr[t].pc \in {"idle", "done"}


(***************************************************************************)
(* assert_consistent_signals and assert_no_faults.  chk is the activation: *)
(* names the signal names given, k the index of the next name to read,     *)
(* observed_values the dict built so far as a sequence of <<name, value>>  *)
(* items in insertion order; reads is a history field, the values that     *)
(* get_signal returned to the operation, in order.  A call of an operation *)
(* starts from fresh activations: brk and chk of the call before are gone. *)
(***************************************************************************)
ChkIdle ==
    [pc |-> "idle", op |-> "none", names |-> <<>>, k |-> 0, timeout_s |-> 0,
     observed_values |-> <<>>, reads |-> <<>>, outcome |-> NoOutcome]

(***************************************************************************)
(* The InteractionBroker on a HalManager of any mode, called by one test   *)
(* thread: each operation runs to its end before the next one starts.      *)
(***************************************************************************)
MaxOps == 1

\* HalManager.get_can_port as one thread executes it: the outcome and the
\* manager it leaves behind.
HalManager_get_can_port(h, bus_name, hw) ==
    IF h.can_ports[bus_name] # 0
    THEN [outcome |-> Return(h.can_ports[bus_name]), hal |-> h]
    ELSE LET p == new_port(h.mode, bus_name, hw) IN
         IF p.kind = "raise"
         THEN [outcome |-> p, hal |-> h]
         ELSE [outcome |-> Return(Len(h.made) + 1),
               hal |-> [h EXCEPT !.made = Append(@, p.value),
                                 !.can_ports[bus_name] = Len(h.made) + 1]]

\* HilCanPort.send: a python-can CanError raised by the bus becomes a result
\* with success False; io says what the bus does.  The result's timestamp is
\* the default, the time of import.
HilCanPort_send(io, message) ==
    IF io = "ok"
    THEN Return([success |-> TRUE, error_message |-> NoneT, timestamp |-> Some(0)])
    ELSE Return([success |-> FALSE, error_message |-> Some("can.CanError"),
                 timestamp |-> Some(0)])

\* can_port.send(message) on a port of class cls.
BaseCanPort_send(cls, io, message) ==
    IF cls = "MockCanPort" THEN Return(MockCanPort_send(message))
    ELSE HilCanPort_send(io, message)

\* set_signal_result without the test of result.success.
set_signal_result_unchecked(signal_def, result) ==
    IF result.kind = "raise"
    THEN IF result.exc \in HalErrorClasses
         THEN Raise("EnvironmentFault", <<"HAL failure while sending", signal_def.name>>)
         ELSE result
    ELSE Return(PyNone)

\* set_signal, lines 27-35: the outcome of set_signal given what send did.
set_signal_result(signal_def, result) ==
    IF result.kind = "raise"
    THEN IF result.exc \in HalErrorClasses
         THEN Raise("EnvironmentFault", <<"HAL failure while sending", signal_def.name>>)
         ELSE result
    ELSE IF ~result.value.success
    THEN Raise("EnvironmentFault", <<"Transmission on bus failed", signal_def.bus>>)
    ELSE Return(PyNone)

OpsIdle == brk.pc \in {"idle", "done"} /\ chk.pc \in {"idle", "done"}

PortClass(h, port) == h.made[port].cls

\* The test obtains the bus's port from the manager and injects a frame.
test_inject(bus, message) ==
    /\ OpsIdle
    /\ Len(injected[bus]) < MaxInject
    /\ LET g == HalManager_get_can_port(hal, bus, "up") IN
          /\ g.outcome.kind = "return"
          /\ PortClass(g.hal, g.outcome.value) = "MockCanPort"
          /\ hal' = g.hal
    /\ can_ports' = get_can_port(can_ports, bus)
    /\ rx_queue' = [rx_queue EXCEPT ![bus] = Append(@, with_timestamp(message))]
    /\ injected' = [injected EXCEPT ![bus] = Append(@, with_timestamp(message))]
    /\ UNCHANGED <<now, rcv, brk, eng, preconditions, actions, calls, received, sent, chk, cod>>

\* call_set_signal sending a frame without data when the value cannot be
\* encoded.
call_set_signal_empty_frame(signal_name, value, hw, io) ==
    /\ OpsIdle
    /\ calls < MaxOps
    /\ calls' = calls + 1
    /\ LET signal_def == SignalCatalog_get(signal_name)
           b == [BrkIdle EXCEPT !.op = "set_signal", !.caller = "test",
                                !.signal_name = signal_name, !.arg = value, !.entry = now]
       IN  IF signal_def.kind = "raise"
           THEN /\ brk' = BrkDone(b, signal_def)
                /\ UNCHANGED <<hal, sent, can_ports>>
           ELSE LET bus == signal_def.value.bus
                    g == HalManager_get_can_port(hal, bus, hw)
                    bp == [b EXCEPT !.port = g.outcome, !.base = Len(sent[bus])]
                    message == _encode(signal_def.value, value)
                IN  /\ hal' = g.hal
                    /\ IF g.outcome.kind = "raise"
                       THEN /\ brk' = BrkDone(bp, g.outcome)
                            /\ UNCHANGED <<sent, can_ports>>
                       ELSE LET cls == PortClass(g.hal, g.outcome.value) IN
                            /\ can_ports' = [can_ports EXCEPT ![bus] = cls]
                            /\ IF message.kind = "raise"
                               THEN /\ brk' = BrkDone(bp, message)
                                    /\ sent' = [sent EXCEPT ![bus] =
                                           Append(@, CanMessage(signal_def.value.can_id, <<>>))]
                               ELSE LET result == BaseCanPort_send(cls, io, message.value) IN
                                    /\ sent' = [sent EXCEPT ![bus] = Append(@, message.value)]
                                    /\ brk' = BrkDone([bp EXCEPT !.result = result],
                                                      set_signal_result(signal_def.value, result))
    /\ chk' = ChkIdle
    /\ UNCHANGED <<now, rx_queue, rcv, eng, preconditions, actions, injected, received, cod>>

\* InteractionBroker.set_signal, called by the test thread; hw and io say
\* what the hardware does if the port is, or is to be, a HilCanPort.
call_set_signal(signal_name, value, hw, io) ==
    /\ OpsIdle
    /\ calls < MaxOps
    /\ calls' = calls + 1
    /\ LET signal_def == SignalCatalog_get(signal_name)
           b == [BrkIdle EXCEPT !.op = "set_signal", !.caller = "test",
                                !.signal_name = signal_name, !.arg = value, !.entry = now]
       IN  IF signal_def.kind = "raise"
           THEN /\ brk' = BrkDone(b, signal_def)
                /\ UNCHANGED <<hal, sent, can_ports>>
           ELSE LET bus == signal_def.value.bus
                    g == HalManager_get_can_port(hal, bus, hw)
                    bp == [b EXCEPT !.port = g.outcome, !.base = Len(sent[bus])]
                    message == _encode(signal_def.value, value)
                IN  /\ hal' = g.hal
                    /\ IF g.outcome.kind = "raise"
                       THEN /\ brk' = BrkDone(bp, g.outcome)
                            /\ UNCHANGED <<sent, can_ports>>
                       ELSE LET cls == PortClass(g.hal, g.outcome.value) IN
                            /\ can_ports' = [can_ports EXCEPT ![bus] = cls]
                            /\ IF message.kind = "raise"
                               THEN /\ brk' = BrkDone(bp, message)
                                    /\ UNCHANGED sent
                               ELSE LET result == BaseCanPort_send(cls, io, message.value) IN
                                    /\ sent' = [sent EXCEPT ![bus] = Append(@, message.value)]
                                    /\ brk' = BrkDone([bp EXCEPT !.result = result],
                                                      set_signal_result(signal_def.value, result))
    /\ chk' = ChkIdle
    /\ UNCHANGED <<now, rx_queue, rcv, eng, preconditions, actions, injected, received, cod>>

\* One read of the operations above: the world it leaves, the manager it
\* leaves, and whether the port's class is one whose receive is modelled.
read_run(op, signal_name, arg, timeout_s, hw) ==
    LET signal_def == SignalCatalog_get(signal_name)
        b == [BrkIdle EXCEPT !.op = op, !.caller = "test", !.signal_name = signal_name,
                             !.arg = arg, !.timeout_s = Some(timeout_s), !.entry = now]
    IN  IF signal_def.kind = "raise"
        THEN [w |-> World(signal_def, now, can_ports, rx_queue, received, sent,
                          BrkDone(b, signal_def)),
              hal |-> hal, modelled |-> TRUE]
        ELSE LET g == HalManager_get_can_port(hal, signal_def.value.bus, hw) IN
             IF g.outcome.kind = "raise"
             THEN [w |-> World(g.outcome, now, can_ports, rx_queue, received, sent,
                               BrkDone([b EXCEPT !.port = g.outcome], g.outcome)),
                   hal |-> g.hal, modelled |-> TRUE]
             ELSE IF PortClass(g.hal, g.outcome.value) # "MockCanPort"
             THEN [w |-> World(NoOutcome, now, can_ports, rx_queue, received, sent, b),
                   hal |-> g.hal, modelled |-> FALSE]
             ELSE LET w == read_signal(op, signal_name, arg, Some(timeout_s), 0) IN
                  [w |-> [w EXCEPT !.brk.caller = "test", !.brk.port = g.outcome],
                   hal |-> g.hal, modelled |-> TRUE]

\* get_signal and the assert_signal_* operations, called by the test thread
\* and run to their end.  The reads of a HilCanPort depend on the frames the
\* hardware delivers and are left out.
call_read(op, signal_name, arg, timeout_s, hw) ==
    /\ OpsIdle
    /\ calls < MaxOps
    /\ calls' = calls + 1
    /\ \E r \in {read_run(op, signal_name, arg, timeout_s, hw)} :
          /\ r.modelled
          /\ SetWorld(r.w)
          /\ hal' = r.hal
    /\ chk' = ChkIdle
    /\ UNCHANGED <<rcv, eng, preconditions, actions, injected, cod>>

\* d[key] = value on a dict: a new key goes last, a known key keeps its place.
DictSet(d, key, value) ==
    IF \E i \in 1..Len(d) : d[i][1] = key
    THEN [i \in 1..Len(d) |-> IF d[i][1] = key THEN <<key, value>> ELSE d[i]]
    ELSE Append(d, <<key, value>>)

\* set(d.values())
DictValueSet(d) == {d[i][2] : i \in 1..Len(d)}

\* The tuple of assert_no_faults.
HealthyValues == <<PyInt(0), PyStr(S_NONE), PyStr(S_INACTIVE), PyStr(S_OK)>>

call_multi(op, names, timeout_s) ==
    /\ OpsIdle
    /\ calls < MaxOps
    /\ calls' = calls + 1
    /\ chk' = [ChkIdle EXCEPT !.pc = "read", !.op = op, !.names = names, !.k = 1,
                              !.timeout_s = timeout_s]
    /\ brk' = BrkIdle
    /\ UNCHANGED <<now, can_ports, rx_queue, rcv, eng, preconditions, actions,
                   injected, received, sent, hal, cod>>

call_assert_consistent_signals(names, timeout_s) ==
    call_multi("assert_consistent_signals", names, timeout_s)

call_assert_no_faults(names, timeout_s) ==
    call_multi("assert_no_faults", names, timeout_s)

\* One item of the dict comprehension: get_signal(name, timeout_s); an
\* exception of get_signal ends the operation.
consistent_read(hw) ==
    /\ chk.pc = "read" /\ chk.op = "assert_consistent_signals"
    /\ chk.k <= Len(chk.names)
    /\ \E r \in {read_run("get_signal", chk.names[chk.k], PyNone, chk.timeout_s, hw)} :
       LET name == chk.names[chk.k]
           out == r.w.outcome
       IN  /\ r.modelled
           /\ SetWorld(r.w)
           /\ hal' = r.hal
           /\ chk' = IF out.kind = "raise"
                     THEN [chk EXCEPT !.pc = "done", !.outcome = out]
                     ELSE [chk EXCEPT !.k = @ + 1,
                                      !.observed_values = DictSet(@, name, out.value),
                                      !.reads = Append(@, out.value)]
    /\ UNCHANGED <<rcv, eng, preconditions, actions, calls, injected, cod>>

\* Lines 149-154: the set of the dict's values and the test of its size.
consistent_end ==
    /\ chk.pc = "read" /\ chk.op = "assert_consistent_signals"
    /\ chk.k > Len(chk.names)
    /\ LET unique_values == DictValueSet(chk.observed_values) IN
       chk' = [chk EXCEPT !.pc = "done",
                          !.outcome = IF Cardinality(unique_values) > 1
                                      THEN Raise("SutFault",
                                                 <<"Signals are inconsistent", chk.observed_values>>)
                                      ELSE Return(PyNone)]
    /\ UNCHANGED <<now, can_ports, rx_queue, rcv, brk, eng, preconditions, actions, calls,
                   injected, received, sent, hal, cod>>

\* no_faults_read without the membership test.
no_faults_read_unchecked(hw) ==
    /\ chk.pc = "read" /\ chk.op = "assert_no_faults"
    /\ chk.k <= Len(chk.names)
    /\ \E r \in {read_run("get_signal", chk.names[chk.k], PyNone, chk.timeout_s, hw)} :
       LET name == chk.names[chk.k]
           out == r.w.outcome
       IN  /\ r.modelled
           /\ SetWorld(r.w)
           /\ hal' = r.hal
           /\ chk' = IF out.kind = "raise"
                     THEN [chk EXCEPT !.pc = "done", !.outcome = out]
                     ELSE [chk EXCEPT !.k = @ + 1, !.reads = Append(@, out.value)]
    /\ UNCHANGED <<rcv, eng, preconditions, actions, calls, injected, cod>>

\* One iteration of the for loop of assert_no_faults, lines 159-164.
no_faults_read(hw) ==
    /\ chk.pc = "read" /\ chk.op = "assert_no_faults"
    /\ chk.k <= Len(chk.names)
    /\ \E r \in {read_run("get_signal", chk.names[chk.k], PyNone, chk.timeout_s, hw)} :
       LET name == chk.names[chk.k]
           out == r.w.outcome
       IN  /\ r.modelled
           /\ SetWorld(r.w)
           /\ hal' = r.hal
           /\ chk' = IF out.kind = "raise"
                     THEN [chk EXCEPT !.pc = "done", !.outcome = out]
                     ELSE IF ~PyIn(out.value, HealthyValues)
                     THEN [chk EXCEPT !.pc = "done", !.reads = Append(@, out.value),
                                      !.outcome = Raise("EnvironmentFault",
                                          <<"Fault indicator reported unhealthy state",
                                            name, out.value>>)]
                     ELSE [chk EXCEPT !.k = @ + 1, !.reads = Append(@, out.value)]
    /\ UNCHANGED <<rcv, eng, preconditions, actions, calls, injected, cod>>

\* The for loop of assert_no_faults is exhausted: the operation returns.
no_faults_end ==
    /\ chk.pc = "read" /\ chk.op = "assert_no_faults"
    /\ chk.k > Len(chk.names)
    /\ chk' = [chk EXCEPT !.pc = "done", !.outcome = Return(PyNone)]
    /\ UNCHANGED <<now, can_ports, rx_queue, rcv, brk, eng, preconditions, actions, calls,
                   injected, received, sent, hal, cod>>

(***************************************************************************)
(* The precondition catalogs under test: one definition, of up to MaxSteps *)
(* steps and MaxRollback rollback steps.                                   *)
(***************************************************************************)
Step(action, target, value) == [action |-> action, target |-> target, value |-> value]

ForwardSteps ==
    {Step("set_signal", "Door", PyStr(S_open)),
     Step("wait_for_signal", "Door", PyStr(S_OPEN)),
     Step("set_signal", "Door", PyStr(S_AJAR)),
     Step("reboot", "Door", PyNone)}

RollbackSteps ==
    {Step("set_signal", "Door", PyStr(S_CLOSED)),
     Step("reboot", "Door", PyNone)}

SeqsUpTo(S, n) == UNION {[1..k -> S] : k \in 0..n}

Definitions ==
    {[name |-> "Setup", steps |-> s, rollback |-> r] :
        s \in SeqsUpTo(ForwardSteps, MaxSteps), r \in SeqsUpTo(RollbackSteps, MaxRollback)}

ApplyNames == {"Setup", "Missing"}

(***************************************************************************)
(* _encode and _decode on their own.  cod holds a signal definition and a  *)
(* value, then the outcome of _encode, then the value _decode gives for    *)
(* the frame.  The definitions are those PayloadDefinition accepts: type   *)
(* enum with any mapping of strings to integers, uint and int.             *)
(***************************************************************************)
MaxItems == 2
MaxInt == 256

S_Open == <<"O", "p", "e", "n">>

CodIdle ==
    [pc |-> "idle", signal_def |-> Signals["Door"], value |-> PyNone,
     message |-> NoOutcome, decoded |-> NoOutcome]

MappingKeys == {S_OPEN, S_Open, S_AJAR}
MappingValues == {0, 1, MaxInt}

\* The mappings of up to MaxItems items; a dict holds one item per key.
Mappings ==
    {m \in SeqsUpTo(MappingKeys \X MappingValues, MaxItems) :
        Len(m) > 0 /\ \A i, j \in 1..Len(m) : i # j => m[i][1] # m[j][1]}

CodecSignals ==
    {[name |-> "Level", bus |-> "body", can_id |-> DoorId,
      payload |-> [type |-> "enum", mapping |-> m]] : m \in Mappings}
    \cup {[name |-> "Level", bus |-> "body", can_id |-> DoorId,
           payload |-> [type |-> ty, mapping |-> <<>>]] : ty \in {"uint", "int"}}

\* The values given to _encode: for an enum the keys and their other
\* spellings, for the integer types the integers around the one-byte ranges.
CodecValues(signal_def) ==
    IF signal_def.payload.type = "enum"
    THEN {PyStr(k) : k \in MappingKeys \cup {S_open}}
    ELSE {PyInt(n) : n \in (-(MaxInt \div 2) - 1)..MaxInt}

\* message = self._encode(signal_def, value)
codec_encode ==
    /\ cod.pc = "start"
    /\ cod' = [cod EXCEPT !.pc = "encoded", !.message = _encode(cod.signal_def, cod.value)]
    /\ UNCHANGED <<now, can_ports, rx_queue, rcv, brk, eng, preconditions, actions, calls,
                   injected, received, sent, hal, chk>>

\* self._decode(signal_def, message), for the frame _encode returned
codec_decode ==
    /\ cod.pc = "encoded"
    /\ cod.message.kind = "return"
    /\ cod' = [cod EXCEPT !.pc = "decoded",
                          !.decoded = Return(_decode(cod.signal_def, cod.message.value))]
    /\ UNCHANGED <<now, can_ports, rx_queue, rcv, brk, eng, preconditions, actions, calls,
                   injected, received, sent, hal, chk>>

\* The data of the frames given to _decode on its own: no byte, one byte
\* that is or is not a value of the mappings, and two bytes.
FrameData == {<<>>, <<0>>, <<1>>, <<2>>, <<255>>, <<1, 0>>}

\* self._decode(signal_def, message), for a frame of the signal's id as a
\* port returns it
codec_decode_frame(data) ==
    /\ cod.pc = "start"
    /\ LET message == CanMessage(cod.signal_def.can_id, data) IN
       cod' = [cod EXCEPT !.pc = "frame_decoded",
                          !.message = Return(message),
                          !.decoded = Return(_decode(cod.signal_def, message))]
    /\ UNCHANGED <<now, can_ports, rx_queue, rcv, brk, eng, preconditions, actions, calls,
                   injected, received, sent, hal, chk>>

\* The frames a test injects before it calls apply, stamped at injection.
InitFrames ==
    {[CanMessage(DoorId, <<b>>) EXCEPT !.timestamp = Some(StartTime)] : b \in {0, 1}}

Init ==
    /\ now = StartTime
    /\ can_ports = [b \in Buses |-> "absent"]
    /\ rx_queue = [b \in Buses |-> <<>>]
    /\ rcv = RcvIdle
    /\ brk = BrkIdle
    /\ eng = EngIdle
    /\ preconditions = <<>>
    /\ actions = BuiltinActions
    /\ calls = 0
    /\ injected = [b \in Buses |-> <<>>]
    /\ received = [b \in Buses |-> <<>>]
    /\ sent = [b \in Buses |-> <<>>]
    /\ hal = NoHal
    /\ chk = ChkIdle
    /\ cod = CodIdle

(***************************************************************************)
(* Spec: the test thread calls wait_for_signal and get_signal while        *)
(* another thread injects frames.                                          *)
(***************************************************************************)
Next ==
    \/ \E b \in Buses, m \in StampedFrames : inject_message(b, m)
    \/ \E n \in TestNames, e \in ExpectedValues, t \in WaitTimeouts, p \in Pollings :
          call_wait_for_signal(n, e, t, p)
    \/ \E n \in TestNames, t \in GetTimeouts : call_get_signal(n, t)
    \/ receive_step
    \/ wait_for_signal_loop
    \/ wait_for_signal_recv
    \/ get_signal_loop
    \/ get_signal_recv

Spec == Init /\ [][Next]_vars

(***************************************************************************)
(* SpecPort: the test thread calls receive on a bus's port while another   *)
(* thread injects frames.                                                  *)
(***************************************************************************)
NextPort ==
    \/ \E b \in Buses, m \in InjectFrames \cup StampedFrames : inject_message(b, m)
    \/ \E b \in Buses, t \in 0..MaxPortTimeout : call_receive(b, t)
    \/ receive_step


SpecPort == Init /\ [][NextPort]_vars

(***************************************************************************)
(* SpecFlood: a wait_for_signal or get_signal call while another thread    *)
(* keeps the port's queue filled and the clock moves between the steps of  *)
(* the call as well (clock_tick), not only in time.sleep.  The history     *)
(* variables injected and received are not kept, and the activation's      *)
(* counters are capped, so that a call that never ends is a cycle.         *)
(***************************************************************************)
MaxCount == 2

FloodFrames ==
    {[CanMessage(SpeedId, <<0>>) EXCEPT !.timestamp = Some(StartTime)],
     [CanMessage(DoorId, <<0>>) EXCEPT !.timestamp = Some(StartTime)]}
FloodNames == {"Door", "Speed"}
FloodTimeouts == {Some(t) : t \in Timeouts}

\* The latest a call's last sleep can end, counted from its entry: the
\* timeout, one polling interval and one sleep of the port's poll.  A call
\* is started only while the clock of the model has that much left before
\* MaxClock.
CallSpan ==
    MaxTimeout + (CHOOSE p \in Pollings : \A q \in Pollings : q <= p) + Sleep

Capped(b) ==
    [b EXCEPT !.timeouts = Min(@, MaxCount), !.discarded = Min(@, MaxCount)]

\* time.time() moves on while the call runs.
clock_tick ==
    /\ brk.pc \in {"loop", "recv"}
    /\ now < MaxClock
    /\ now' = now + 1
    /\ UNCHANGED <<can_ports, rx_queue, rcv, brk, eng, preconditions, actions, calls,
                   injected, received, sent, hal, chk, cod>>

\* MockCanPort.inject_message by the other thread, as soon as the queue is
\* empty.
flood_inject(bus, message) ==
    /\ rx_queue[bus] = <<>>
    /\ can_ports' = get_can_port(can_ports, bus)
    /\ rx_queue' = [rx_queue EXCEPT ![bus] = Append(@, with_timestamp(message))]
    /\ rcv' = IF rcv.pc = "loop" /\ rcv.bus = bus
              THEN [rcv EXCEPT !.avail = TRUE]
              ELSE rcv
    /\ UNCHANGED <<now, brk, eng, preconditions, actions, calls, injected, received,
                   sent, hal, chk, cod>>

\* One step of the receive in progress.
flood_receive_step ==
    /\ rcv.pc = "loop"
    /\ LET r == ReceiveIter(rx_queue[rcv.bus], now, rcv.start, rcv.timeout_s) IN
        /\ r.now <= MaxClock
        /\ now' = r.now
        /\ rx_queue' = [rx_queue EXCEPT ![rcv.bus] = r.queue]
        /\ rcv' = CASE r.kind = "return" ->
                         [rcv EXCEPT !.pc = "done", !.outcome = Return(r.value), !.end = r.now]
                    [] r.kind = "raise" ->
                         [rcv EXCEPT !.pc = "done", !.end = r.now,
                                     !.outcome = Raise("CanTimeoutError", <<"Timeout on bus", rcv.bus>>)]
                    [] OTHER -> rcv
    /\ UNCHANGED <<can_ports, brk, eng, preconditions, actions, calls, injected, received,
                   sent, hal, chk, cod>>

\* The head of the while True loop of wait_for_signal or get_signal.
flood_loop ==
    /\ brk.pc = "loop"
    /\ brk' = LoopHead(brk, now)
    /\ rcv' = IF brk'.pc = "recv"
              THEN ReceiveEntry("broker", Signals[brk.signal_name].bus, brk'.sub)
              ELSE rcv
    /\ UNCHANGED <<now, can_ports, rx_queue, eng, preconditions, actions, calls, injected,
                   received, sent, hal, chk, cod>>

\* The rest of the loop body, once receive has returned or raised.
flood_recv ==
    /\ brk.pc = "recv"
    /\ rcv.pc = "done"
    /\ brk' = Capped(LoopTail(brk, rcv.outcome, now))
    /\ UNCHANGED <<now, can_ports, rx_queue, rcv, eng, preconditions, actions, calls,
                   injected, received, sent, hal, chk, cod>>

FloodCall ==
    \/ flood_receive_step
    \/ flood_loop
    \/ flood_recv

NextFlood ==
    \/ \E n \in FloodNames, t \in FloodTimeouts, p \in Pollings :
          now + CallSpan <= MaxClock /\ call_wait_for_signal(n, PyStr(S_OPEN), t, p)
    \/ \E n \in FloodNames, t \in Timeouts :
          now + CallSpan <= MaxClock /\ call_get_signal(n, t)
    \/ \E b \in Buses, m \in FloodFrames : flood_inject(b, m)
    \/ clock_tick
    \/ FloodCall

\* The calling thread is scheduled again and again, and the clock advances.
SpecFlood ==
    /\ Init
    /\ [][NextFlood]_vars
    /\ WF_vars(FloodCall)
    /\ WF_vars(clock_tick)

(***************************************************************************)
(* SpecBuses: the manager holds the ports of two buses; Door lives on body *)
(* and Hatch on chassis, with the same frame id.  The test thread calls    *)
(* wait_for_signal and get_signal while another thread injects frames on   *)
(* either bus.                                                             *)
(***************************************************************************)
MaxBusInject == 2

BusFrames ==
    {[CanMessage(DoorId, <<b>>) EXCEPT !.timestamp = Some(StartTime)] : b \in {0, 1}}

BusNames == {"Door", "Hatch"}

InitBuses ==
    /\ now = StartTime
    /\ can_ports = [b \in RegistryBuses |-> "absent"]
    /\ rx_queue = [b \in RegistryBuses |-> <<>>]
    /\ rcv = RcvIdle
    /\ brk = BrkIdle
    /\ eng = EngIdle
    /\ preconditions = <<>>
    /\ actions = BuiltinActions
    /\ calls = 0
    /\ injected = [b \in RegistryBuses |-> <<>>]
    /\ received = [b \in RegistryBuses |-> <<>>]
    /\ sent = [b \in RegistryBuses |-> <<>>]
    /\ hal = NoHal
    /\ chk = ChkIdle
    /\ cod = CodIdle

NextBuses ==
    \/ \E b \in RegistryBuses, m \in BusFrames :
          Len(injected[b]) < MaxBusInject /\ inject_message(b, m)
    \/ \E n \in BusNames, t \in WaitTimeouts, p \in Pollings :
          call_wait_for_signal(n, PyStr(S_OPEN), t, p)
    \/ \E n \in BusNames, t \in Timeouts : call_get_signal(n, t)
    \/ receive_step
    \/ wait_for_signal_loop
    \/ wait_for_signal_recv
    \/ get_signal_loop
    \/ get_signal_recv

SpecBuses == InitBuses /\ [][NextBuses]_vars

(***************************************************************************)
(* SpecApply: one thread injects up to MaxInitQueue frames and then calls  *)
(* apply; no other thread runs.                                            *)
(***************************************************************************)
InitApply ==
    /\ now = StartTime
    /\ \E q \in SeqsUpTo(InitFrames, MaxInitQueue) :
          /\ rx_queue = [b \in Buses |-> q]
          /\ injected = [b \in Buses |-> q]
          /\ can_ports = [b \in Buses |-> IF q = <<>> THEN "absent" ELSE "MockCanPort"]
    /\ rcv = RcvIdle
    /\ brk = BrkIdle
    /\ eng = EngIdle
    /\ preconditions \in [{"Setup"} -> Definitions]
    /\ actions = BuiltinActions
    /\ calls = 0
    /\ received = [b \in Buses |-> <<>>]
    /\ sent = [b \in Buses |-> <<>>]
    /\ hal = NoHal
    /\ chk = ChkIdle
    /\ cod = CodIdle

NextApply ==
    \/ \E n \in ApplyNames : call_apply(n)
    \/ apply_step
    \/ apply_return
    \/ rollback_step
    \/ apply_raise

SpecApply == InitApply /\ [][NextApply]_vars

(***************************************************************************)
(* SpecRegister: the test registers handlers, for a new action name and    *)
(* for the name of a built-in one, and then calls apply.                   *)
(***************************************************************************)
MaxRegister == 2
MaxRegSteps == 2

RegisterNames == {"reboot", "set_signal"}
Handlers == {"_set_signal", "handler_noop", "handler_raise"}

RegisterSteps ==
    {Step("reboot", "Door", PyStr(S_OPEN)),
     Step("set_signal", "Door", PyStr(S_CLOSED)),
     Step("assert_signal_range", "Door", PyNone)}

RegisterDefinitions ==
    {[name |-> "Setup", steps |-> s, rollback |-> r] :
        s \in SeqsUpTo(RegisterSteps, MaxRegSteps),
        r \in SeqsUpTo(RegisterSteps, MaxRegSteps - 1)}

InitRegister ==
    /\ now = StartTime
    /\ rx_queue = [b \in Buses |-> <<>>]
    /\ injected = [b \in Buses |-> <<>>]
    /\ can_ports = [b \in Buses |-> "absent"]
    /\ rcv = RcvIdle
    /\ brk = BrkIdle
    /\ eng = EngIdle
    /\ preconditions \in [{"Setup"} -> RegisterDefinitions]
    /\ actions = BuiltinActions
    /\ calls = 0
    /\ received = [b \in Buses |-> <<>>]
    /\ sent = [b \in Buses |-> <<>>]
    /\ hal = NoHal
    /\ chk = ChkIdle
    /\ cod = CodIdle

NextRegister ==
    \/ \E n \in RegisterNames, h \in Handlers : calls < MaxRegister /\ register_action(n, h)
    \/ call_apply("Setup")
    \/ apply_step
    \/ apply_return
    \/ rollback_step
    \/ apply_raise

SpecRegister == InitRegister /\ [][NextRegister]_vars

(***************************************************************************)
(* SpecSteps: the test queues up to MaxInitQueue frames and calls apply on *)
(* a definition whose steps write and read the enum signal Door and the    *)
(* integer signal Speed.  The values of the steps are strings, as          *)
(* PreconditionStep holds them.                                            *)
(***************************************************************************)
StepFrames ==
    {[CanMessage(DoorId, <<1>>) EXCEPT !.timestamp = Some(StartTime)],
     [CanMessage(SpeedId, <<1>>) EXCEPT !.timestamp = Some(StartTime)]}

ReadActions == {"wait_for_signal", "assert_signal"}

SignalSteps ==
    {Step(a, "Door", PyStr(S_OPEN)) : a \in {"set_signal"} \cup ReadActions}
    \cup {Step(a, "Speed", PyStr(S_1)) : a \in {"set_signal"} \cup ReadActions}

StepDefinitions ==
    {[name |-> "Setup", steps |-> s, rollback |-> r] :
        s \in SeqsUpTo(SignalSteps, MaxSteps),
        r \in SeqsUpTo({Step("set_signal", "Door", PyStr(S_CLOSED))}, 1)}

InitSteps ==
    /\ now = StartTime
    /\ \E q \in SeqsUpTo(StepFrames, MaxInitQueue) :
          /\ rx_queue = [b \in Buses |-> q]
          /\ injected = [b \in Buses |-> q]
          /\ can_ports = [b \in Buses |-> IF q = <<>> THEN "absent" ELSE "MockCanPort"]
    /\ rcv = RcvIdle
    /\ brk = BrkIdle
    /\ eng = EngIdle
    /\ preconditions \in [{"Setup"} -> StepDefinitions]
    /\ actions = BuiltinActions
    /\ calls = 0
    /\ received = [b \in Buses |-> <<>>]
    /\ sent = [b \in Buses |-> <<>>]
    /\ hal = NoHal
    /\ chk = ChkIdle
    /\ cod = CodIdle

NextSteps ==
    \/ call_apply("Setup")
    \/ apply_step
    \/ apply_return
    \/ rollback_step
    \/ apply_raise

SpecSteps == InitSteps /\ [][NextSteps]_vars

(***************************************************************************)
(* SpecRegistry: a HalManager is constructed with some mode string and the *)
(* threads call get_can_port on it, one call at a time.                    *)
(***************************************************************************)
InitRegistry ==
    /\ now = StartTime
    /\ can_ports = [b \in Buses |-> "absent"]
    /\ rx_queue = [b \in Buses |-> <<>>]
    /\ rcv = RcvIdle
    /\ brk = BrkIdle
    /\ eng = EngIdle
    /\ preconditions = <<>>
    /\ actions = BuiltinActions
    /\ calls = 0
    /\ injected = [b \in Buses |-> <<>>]
    /\ received = [b \in Buses |-> <<>>]
    /\ sent = [b \in Buses |-> <<>>]
    /\ \E m \in ModeStrings :
          LET c == HalManager_init(m) IN c.kind = "return" /\ hal = c.value
    /\ chk = ChkIdle
    /\ cod = CodIdle

NextRegistry ==
    \/ \E t \in RegistryThreads, b \in RegistryBuses : HalQuiet /\ hal_call(t, b)
    \/ \E t \in RegistryThreads : hal_check(t)
    \/ \E t \in RegistryThreads, hw \in {"up", "down"} : hal_create(t, hw)
    \/ \E t \in RegistryThreads : hal_store(t)

SpecRegistry == InitRegistry /\ [][NextRegistry]_vars

(***************************************************************************)
(* SpecRegistryThreads: the same, with the calls of the threads            *)
(* interleaved; HalManager takes no lock.                                  *)
(***************************************************************************)
NextRegistryThreads ==
    \/ \E t \in RegistryThreads, b \in RegistryBuses : hal_call(t, b)
    \/ \E t \in RegistryThreads : hal_check(t)
    \/ \E t \in RegistryThreads, hw \in {"up", "down"} : hal_create(t, hw)
    \/ \E t \in RegistryThreads : hal_store(t)

SpecRegistryThreads == InitRegistry /\ [][NextRegistryThreads]_vars

(***************************************************************************)
(* SpecBroker: a HalManager is constructed with some mode string; one test *)
(* thread injects frames and calls the broker's operations, one after the  *)
(* other.                                                                  *)
(***************************************************************************)
MaxQueued == 2
MaxNames == 2

OpsFrames ==
    {CanMessage(DoorId, <<0>>), CanMessage(DoorId, <<1>>), CanMessage(SpeedId, <<0>>),
     CanMessage(SpeedId, <<2>>), CanMessage(FaultId, <<0>>), CanMessage(FaultId, <<2>>)}
OpsNames == NamesOn(Buses) \cup {"Ghost"}
SetValues == {PyStr(S_OPEN), PyStr(S_open), PyStr(S_AJAR), PyInt(1), PyInt(256), PyNone}
OpsExpected == {PyStr(S_OPEN), PyInt(2)}
ExpectedSets == {<<PyStr(S_OPEN), PyInt(0)>>, <<PyInt(2)>>, <<>>}
RangeBounds == {0, 2}
NameLists == SeqsUpTo(NamesOn(Buses), MaxNames)
Hardware == {"up", "down"}
BusBehaviours == {"ok", "can_error"}
BrokerModes == {<<"m", "o", "c", "k">>, <<"H", "i", "l">>, <<"l", "a", "b">>}

InitBroker ==
    /\ now = StartTime
    /\ can_ports = [b \in Buses |-> "absent"]
    /\ rx_queue = [b \in Buses |-> <<>>]
    /\ rcv = RcvIdle
    /\ brk = BrkIdle
    /\ eng = EngIdle
    /\ preconditions = <<>>
    /\ actions = BuiltinActions
    /\ calls = 0
    /\ injected = [b \in Buses |-> <<>>]
    /\ received = [b \in Buses |-> <<>>]
    /\ sent = [b \in Buses |-> <<>>]
    /\ \E m \in BrokerModes :
          LET c == HalManager_init(m) IN c.kind = "return" /\ hal = c.value
    /\ chk = ChkIdle
    /\ cod = CodIdle

NextBroker ==
    \/ \E b \in Buses, m \in OpsFrames :
          Len(injected[b]) < MaxQueued /\ test_inject(b, m)
    \/ \E n \in OpsNames, v \in SetValues, hw \in Hardware, io \in BusBehaviours :
          call_set_signal(n, v, hw, io)
    \/ \E n \in OpsNames, t \in Timeouts, hw \in Hardware :
          call_read("get_signal", n, PyNone, t, hw)
    \/ \E n \in OpsNames, e \in OpsExpected, t \in Timeouts, hw \in Hardware :
          call_read("assert_signal_equal", n, e, t, hw)
    \/ \E n \in OpsNames, s \in ExpectedSets, t \in Timeouts, hw \in Hardware :
          call_read("assert_signal_in", n, s, t, hw)
    \/ \E n \in OpsNames, lo \in RangeBounds, hi \in RangeBounds, t \in Timeouts, hw \in Hardware :
          call_read("assert_signal_in_range", n, <<lo, hi>>, t, hw)
    \/ \E names \in NameLists, t \in Timeouts : call_assert_consistent_signals(names, t)
    \/ \E names \in NameLists, t \in Timeouts : call_assert_no_faults(names, t)
    \/ \E hw \in Hardware : consistent_read(hw)
    \/ consistent_end
    \/ \E hw \in Hardware : no_faults_read(hw)
    \/ no_faults_end

SpecBroker == InitBroker /\ [][NextBroker]_vars

(***************************************************************************)
(* SpecCodec: a value is encoded for a signal definition and the frame is  *)
(* decoded.                                                                *)
(***************************************************************************)
InitCodec ==
    /\ now = StartTime
    /\ can_ports = [b \in Buses |-> "absent"]
    /\ rx_queue = [b \in Buses |-> <<>>]
    /\ rcv = RcvIdle
    /\ brk = BrkIdle
    /\ eng = EngIdle
    /\ preconditions = <<>>
    /\ actions = BuiltinActions
    /\ calls = 0
    /\ injected = [b \in Buses |-> <<>>]
    /\ received = [b \in Buses |-> <<>>]
    /\ sent = [b \in Buses |-> <<>>]
    /\ hal = NoHal
    /\ chk = ChkIdle
    /\ \E d \in CodecSignals : \E v \in CodecValues(d) :
          cod = [CodIdle EXCEPT !.pc = "start", !.signal_def = d, !.value = v]

NextCodec ==
    \/ codec_encode
    \/ codec_decode
    \/ \E data \in FrameData : codec_decode_frame(data)

SpecCodec == InitCodec /\ [][NextCodec]_vars

(***************************************************************************)
(* Properties of the in-memory port, under SpecPort.                       *)
(***************************************************************************)
\* C9: on each bus's in-memory port, whatever the interleaving of
\* inject_message and receive, the frames receive has returned followed by
\* the frames still queued are exactly the frames injected, in injection
\* order: the returned sequence is a prefix of the injected one, so no frame
\* is returned twice, out of order, or without having been injected.
C9_FifoPrefix ==
    \A b \in Buses : injected[b] = received[b] \o rx_queue[b]

\* Two different frames were returned by two receive calls, the second frame
\* injected only after the first had been returned.
C9_Witness ==
    /\ Len(received["body"]) = 2
    /\ received["body"][1] # received["body"][2]
    /\ rcv.pc = "done"
    /\ rcv.outcome.kind = "return"
    /\ rcv.outcome.value.timestamp = Some(rcv.end)
    /\ rcv.end > StartTime

\* C10, as stated: a finished receive has returned a frame or raised
\* CanTimeoutError; it raised only if no frame was in the queue at any moment
\* between its call and its end; and it lasted no longer than its timeout
\* plus one sleep of the poll.
C10_TimeoutOnlyWhenNoFrame ==
    rcv.pc = "done" =>
        /\ \/ rcv.outcome.kind = "return"
           \/ rcv.outcome.kind = "raise" /\ rcv.outcome.exc = "CanTimeoutError"
        /\ rcv.outcome.kind = "raise" => ~rcv.avail
        /\ rcv.end - rcv.start <= rcv.timeout_s + Sleep

(***************************************************************************)
(* Properties of the broker's blocking reads, under Spec.  In each, got is *)
(* the sequence of frames the port has returned to the call so far.        *)
(***************************************************************************)
\* C5: a wait_for_signal call on a defined signal returns normally only at
\* the moment the port returns to it a frame of the signal's id that decodes
\* to the expected value, and at the first such frame: no frame it received
\* before matches, and a call still running has received no matching frame
\* except one the port has just returned.  It raises nothing but SutFault,
\* and that only with a deadline that has passed and no matching frame
\* received; it starts no port receive after the deadline has passed, and
\* it runs on for less than one polling interval and one sleep of the
\* port's poll after the deadline, within which a matching frame returned
\* by the receive in progress still makes it return normally.
C5_WaitForSignal ==
    (brk.op = "wait_for_signal" /\ brk.signal_name \in SignalNames) =>
        LET signal_def == Signals[brk.signal_name]
            got == SubSeq(received[signal_def.bus], brk.base + 1,
                          Len(received[signal_def.bus]))
            Match(m) == /\ m.can_id = signal_def.can_id
                        /\ PyEq(_decode(signal_def, m), brk.arg)
            returned == brk.pc = "done" /\ brk.outcome.kind = "return"
            pending == brk.pc = "recv" /\ rcv.pc = "done"
        IN  /\ \A i \in 1..Len(got) :
                  Match(got[i]) => i = Len(got) /\ (returned \/ pending)
            /\ returned =>
                  /\ got # <<>>
                  /\ Match(got[Len(got)])
                  /\ rcv.outcome = Return(got[Len(got)])
                  /\ rcv.end = now
            /\ brk.pc = "done" /\ brk.outcome.kind = "raise" =>
                  /\ brk.outcome.exc = "SutFault"
                  /\ brk.deadline # NoneT
                  /\ now > brk.deadline[1]
            /\ brk.pc = "recv" /\ brk.deadline # NoneT =>
                  rcv.start <= brk.deadline[1]
            /\ brk.pc \in {"loop", "recv"} /\ brk.deadline # NoneT =>
                  now < brk.deadline[1] + brk.polling_interval + Sleep

\* C5, as stated: the call returns normally only at the receipt of the first
\* matching frame, and once the deadline has passed without a matching frame
\* the call does not return normally any more: a normal return happens no
\* later than the deadline.
C5_NoReturnAfterDeadline ==
    /\ C5_WaitForSignal
    /\ (/\ brk.op = "wait_for_signal"
        /\ brk.pc = "done"
        /\ brk.outcome.kind = "return"
        /\ brk.deadline # NoneT) => now <= brk.deadline[1]

\* A wait with a deadline returned on a matching frame after one port
\* timeout and one frame that did not match.
C5_Witness ==
    /\ brk.op = "wait_for_signal"
    /\ brk.pc = "done"
    /\ brk.outcome.kind = "return"
    /\ brk.deadline # NoneT
    /\ brk.timeouts >= 1
    /\ brk.discarded >= 1

C7_NeverInPortPastDeadline ==
    (brk.op = "get_signal" /\ brk.signal_name \in SignalNames) =>
        LET signal_def == Signals[brk.signal_name]
            got == SubSeq(received[signal_def.bus], brk.base + 1,
                          Len(received[signal_def.bus]))
        IN  /\ brk.pc = "recv" =>
                  /\ rcv.timeout_s = brk.sub
                  /\ brk.sub > 0
                  /\ brk.sub <= brk.deadline[1] - rcv.start
            /\ brk.pc = "done" /\ brk.outcome.kind = "raise" =>
                  /\ brk.outcome.exc = "SutFault"
                  /\ now >= brk.deadline[1]
                  /\ \A i \in 1..Len(got) : got[i].can_id # signal_def.can_id
            /\ brk.pc = "recv" => now <= brk.deadline[1]

\* C7: each receive get_signal issues has a sub-timeout no larger than the
\* time left to the deadline; get_signal raises nothing but SutFault, and
\* that only at or after the deadline with no frame of the signal's id
\* received; it returns a value only before the deadline; and while the call
\* runs the deadline is passed by less than one sleep of the in-memory
\* port's poll, the time by which that port's receive overruns its timeout.
C7_SubTimeoutWithinBudget ==
    (brk.op = "get_signal" /\ brk.signal_name \in SignalNames) =>
        LET signal_def == Signals[brk.signal_name]
            got == SubSeq(received[signal_def.bus], brk.base + 1,
                          Len(received[signal_def.bus]))
        IN  /\ brk.pc = "recv" =>
                  /\ rcv.timeout_s = brk.sub
                  /\ brk.sub > 0
                  /\ brk.sub <= brk.deadline[1] - rcv.start
            /\ brk.pc = "done" /\ brk.outcome.kind = "raise" =>
                  /\ brk.outcome.exc = "SutFault"
                  /\ now >= brk.deadline[1]
                  /\ \A i \in 1..Len(got) : got[i].can_id # signal_def.can_id
            /\ brk.pc = "done" /\ brk.outcome.kind = "return" => now < brk.deadline[1]
            /\ brk.pc \in {"loop", "recv"} => now < brk.deadline[1] + Sleep

\* get_signal raised SutFault after a frame of another id and a port
\* timeout, the port's last receive having ended after the deadline.
C7_Witness ==
    /\ brk.op = "get_signal"
    /\ brk.pc = "done"
    /\ brk.outcome.kind = "raise"
    /\ brk.outcome.exc = "SutFault"
    /\ brk.discarded >= 1
    /\ brk.timeouts >= 1
    /\ rcv.end > brk.deadline[1]

\* C8: a wait_for_signal call on a defined signal with timeout None has no
\* deadline and never raises SutFault, whatever the number of port timeouts
\* and of frames that do not match: it ends only by returning on a frame
\* that matches, or with what a port error other than a timeout makes of it.
C8_NoDeadline ==
    (brk.op = "wait_for_signal" /\ brk.timeout_s = NoneT /\ brk.signal_name \in SignalNames) =>
        LET signal_def == Signals[brk.signal_name]
            got == received[signal_def.bus]
        IN  /\ brk.deadline = NoneT
            /\ brk.pc = "done" =>
                  \/ /\ brk.outcome.kind = "return"
                     /\ Len(got) > brk.base
                     /\ got[Len(got)].can_id = signal_def.can_id
                     /\ PyEq(_decode(signal_def, got[Len(got)]), brk.arg)
                  \/ /\ brk.outcome.kind = "raise"
                     /\ brk.outcome.exc # "SutFault"
                     /\ rcv.outcome.kind = "raise"
                     /\ rcv.outcome.exc # "CanTimeoutError"

\* A wait without a deadline went through two port timeouts and a frame that
\* did not match, and then returned on a matching frame.
C8_Witness ==
    /\ brk.op = "wait_for_signal"
    /\ brk.timeout_s = NoneT
    /\ brk.timeouts >= 2
    /\ brk.discarded >= 1
    /\ brk.pc = "done"
    /\ brk.outcome.kind = "return"

(***************************************************************************)
(* Properties of PreconditionService.apply, under SpecApply.  In each, F   *)
(* is the sequence of forward steps dispatched so far and R the sequence   *)
(* of rollback steps dispatched so far, each with its handler's outcome.   *)
(***************************************************************************)
\* C1: in an apply of a defined precondition the dispatches are the forward
\* steps 1..k in declared order, every one before the k-th having returned,
\* and, only if the k-th raised, the rollback steps in declared order after
\* them; the frames handed to send are those of the set_signal steps that
\* returned, in dispatch order; and when the k-th step raised the call ends
\* only after every declared rollback step was dispatched, by raising an
\* EnvironmentFault whose message names the precondition.
C1_FailedStepRollsBack ==
    (eng.pc # "idle" /\ eng.name \in DOMAIN preconditions) =>
        LET d == eng.definition
            IsF(e) == e.phase = "steps"
            IsR(e) == e.phase = "rollback"
            IsSent(e) == e.step.action = "set_signal" /\ e.outcome.kind = "return"
            F == SelectSeq(eng.log, IsF)
            R == SelectSeq(eng.log, IsR)
            S == SelectSeq(eng.log, IsSent)
            failed == F # <<>> /\ F[Len(F)].outcome.kind = "raise"
        IN  /\ eng.log = F \o R
            /\ Len(F) <= Len(d.steps)
            /\ \A i \in 1..Len(F) : F[i].index = i /\ F[i].step = d.steps[i]
            /\ \A i \in 1..(Len(F) - 1) : F[i].outcome.kind = "return"
            /\ Len(R) <= Len(d.rollback)
            /\ \A j \in 1..Len(R) : R[j].index = j /\ R[j].step = d.rollback[j]
            /\ R # <<>> => failed
            /\ failed => eng.pc \in {"rollback", "done"}
            /\ Len(sent["body"]) = Len(S)
            /\ \A n \in 1..Len(S) :
                  Return(sent["body"][n]) = _encode(Signals[S[n].step.target], S[n].step.value)
            /\ eng.pc # "done" => eng.outcome = NoOutcome
            /\ eng.pc = "done" /\ failed =>
                  /\ Len(R) = Len(d.rollback)
                  /\ eng.outcome.kind = "raise"
                  /\ eng.outcome.exc = "EnvironmentFault"
                  /\ eng.outcome.message[2] = eng.name

\* The second of three steps raised after the first had sent its frame; two
\* rollback steps were dispatched and sent theirs; apply has raised.
C1_Witness ==
    /\ eng.pc = "done"
    /\ eng.name \in DOMAIN preconditions
    /\ Len(eng.definition.steps) = 3
    /\ Len(eng.log) = 4
    /\ eng.log[1].step.action = "set_signal"
    /\ eng.log[2].phase = "steps"
    /\ eng.log[2].outcome.kind = "raise"
    /\ eng.log[3].phase = "rollback"
    /\ eng.log[4].phase = "rollback"
    /\ Len(sent["body"]) = 3
    /\ eng.outcome.kind = "raise"

\* C2: a rollback step that raises does not end the rollback: when apply of
\* a defined precondition ends by raising, every declared rollback step was
\* dispatched, in declared order, whatever each of them returned or raised,
\* and what apply raises is an EnvironmentFault made from the exception of
\* the forward step that failed, which the rollback leaves as it was caught.
C2_RollbackFailureIgnored ==
    (eng.pc # "idle" /\ eng.name \in DOMAIN preconditions) =>
        LET d == eng.definition
            IsF(e) == e.phase = "steps"
            IsR(e) == e.phase = "rollback"
            F == SelectSeq(eng.log, IsF)
            R == SelectSeq(eng.log, IsR)
        IN  /\ \A j \in 1..Len(R) : R[j].index = j /\ R[j].step = d.rollback[j]
            /\ eng.pc = "rollback" =>
                  /\ eng.j = Len(R) + 1
                  /\ eng.exc = F[Len(F)].outcome
            /\ eng.pc = "done" /\ eng.outcome.kind = "raise" =>
                  /\ Len(R) = Len(d.rollback)
                  /\ F[Len(F)].outcome.kind = "raise"
                  /\ eng.outcome.exc = "EnvironmentFault"
                  /\ eng.outcome.cause = F[Len(F)].outcome
                  /\ eng.outcome.message[3] = F[Len(F)].outcome.message

\* A rollback step raised, the rollback step after it was dispatched and
\* returned, and apply raised from the forward step's exception, which is of
\* another class than the rollback step's.
C2_Witness ==
    /\ eng.pc = "done"
    /\ eng.outcome.kind = "raise"
    /\ \E n \in 1..(Len(eng.log) - 1) :
          /\ eng.log[n].phase = "rollback"
          /\ eng.log[n].outcome.kind = "raise"
          /\ eng.log[n + 1].phase = "rollback"
          /\ eng.log[n + 1].outcome.kind = "return"
          /\ eng.outcome.cause.exc # eng.log[n].outcome.exc

\* C3: as long as every forward step dispatched in an apply of a defined
\* precondition has returned, no rollback step is dispatched; and once all
\* the declared steps have returned, apply returns normally.
C3_NoRollbackOnSuccess ==
    (eng.pc # "idle" /\ eng.name \in DOMAIN preconditions) =>
        LET d == eng.definition
            IsF(e) == e.phase = "steps"
            IsR(e) == e.phase = "rollback"
            F == SelectSeq(eng.log, IsF)
            R == SelectSeq(eng.log, IsR)
        IN  (\A i \in 1..Len(F) : F[i].outcome.kind = "return") =>
                /\ R = <<>>
                /\ eng.pc \in {"steps", "done"}
                /\ eng.pc = "done" =>
                      /\ Len(F) = Len(d.steps)
                      /\ eng.outcome = Return(PyNone)

\* Three steps, a wait_for_signal among them, all returned; two rollback
\* steps are declared; apply has returned.
C3_Witness ==
    /\ eng.pc = "done"
    /\ eng.outcome.kind = "return"
    /\ Len(eng.log) = 3
    /\ \E n \in 1..3 : eng.log[n].step.action = "wait_for_signal"
    /\ Len(eng.definition.rollback) = 2

\* C4: an apply of a defined precondition returns normally if and only if
\* no forward step raised; after a forward step has raised, whatever the
\* class of its exception, the call goes on to the rollback and ends by
\* raising an EnvironmentFault made from that exception, also when no
\* rollback step is declared.
C4_ReturnsIffNoFailure ==
    (eng.pc # "idle" /\ eng.name \in DOMAIN preconditions) =>
        LET d == eng.definition
            IsF(e) == e.phase = "steps"
            IsR(e) == e.phase = "rollback"
            F == SelectSeq(eng.log, IsF)
            R == SelectSeq(eng.log, IsR)
            failures == {i \in 1..Len(F) : F[i].outcome.kind = "raise"}
        IN  /\ failures # {} => eng.pc \in {"rollback", "done"}
            /\ eng.pc = "done" =>
                  /\ eng.outcome.kind \in {"return", "raise"}
                  /\ eng.outcome.kind = "return" <=> failures = {}
                  /\ \A i \in failures :
                        /\ eng.outcome.kind = "raise"
                        /\ eng.outcome.exc = "EnvironmentFault"
                        /\ eng.outcome.cause = F[i].outcome
                        /\ Len(R) = Len(d.rollback)

\* A wait_for_signal step raised SutFault in a precondition that declares no
\* rollback step, and apply raised EnvironmentFault from it.
C4_Witness ==
    /\ eng.pc = "done"
    /\ eng.name \in DOMAIN preconditions
    /\ eng.definition.rollback = <<>>
    /\ eng.outcome.kind = "raise"
    /\ eng.outcome.exc = "EnvironmentFault"
    /\ eng.outcome.cause.exc = "SutFault"

\* The ports constructed so far for a bus.
PortsMadeFor(b) == {i \in 1..Len(hal.made) : hal.made[i].bus = b}

(***************************************************************************)
(* C11: when the calls of get_can_port follow one another, the HalManager  *)
(* holds at most one port per bus name: at most one port is ever           *)
(* constructed for a bus, the cache entry of a bus is a port constructed   *)
(* for that bus, every call that returned a port returned the instance     *)
(* that is in the cache now, two bus names never share an instance, and a  *)
(* cache entry, once set, is never changed or removed.                     *)
(***************************************************************************)
C11_OnePortPerBus ==
    /\ [](/\ \A b \in RegistryBuses : Cardinality(PortsMadeFor(b)) <= 1
          /\ \A b \in RegistryBuses :
                hal.can_ports[b] # 0 => hal.can_ports[b] \in PortsMadeFor(b)
          /\ \A t \in RegistryThreads :
                (hal.thr[t].pc = "done" /\ hal.thr[t].outcome.kind = "return")
                    => hal.thr[t].outcome.value = hal.can_ports[hal.thr[t].bus]
          /\ \A b1, b2 \in RegistryBuses :
                (b1 # b2 /\ hal.can_ports[b1] # 0) => hal.can_ports[b1] # hal.can_ports[b2])
    /\ [][\A b \in RegistryBuses :
             hal.can_ports[b] # 0 => hal'.can_ports[b] = hal.can_ports[b]]_vars

\* Three calls, two for the same bus, and two ports constructed: the second
\* call for the bus returned the cached instance.
C11_Witness ==
    /\ hal.ncalls = 3
    /\ Len(hal.made) = 2
    /\ hal.thr["t1"].pc = "done" /\ hal.thr["t1"].bus = "chassis"
    /\ hal.thr["t1"].outcome = Return(2)
    /\ hal.thr["t2"].pc = "done" /\ hal.thr["t2"].bus = "body"
    /\ hal.thr["t2"].outcome = Return(1)
    /\ hal.can_ports = [b \in RegistryBuses |-> IF b = "body" THEN 1 ELSE 2]


(***************************************************************************)
(* C12: when several threads call get_can_port at the same time for a bus  *)
(* that is not cached yet, at most one port is constructed for the bus and *)
(* all the callers receive the same instance.                              *)
(***************************************************************************)
C12_ConstructedOnce ==
    /\ \A b \in RegistryBuses : Cardinality(PortsMadeFor(b)) <= 1
    /\ \A t, u \in RegistryThreads :
          (/\ hal.thr[t].pc = "done" /\ hal.thr[t].outcome.kind = "return"
           /\ hal.thr[u].pc = "done" /\ hal.thr[u].outcome.kind = "return"
           /\ hal.thr[t].bus = hal.thr[u].bus)
              => hal.thr[t].outcome.value = hal.thr[u].outcome.value


(***************************************************************************)
(* C13: a HalManager that was constructed has a recognized mode (the       *)
(* constructor fails on any other), and no call of get_can_port on it      *)
(* fails because of the mode.                                              *)
(***************************************************************************)
C13_ModeCheckedAtConstruction ==
    /\ hal.mode \in {M_HIL, M_MOCK, M_SIL}
    /\ \A t \in RegistryThreads :
          (hal.thr[t].pc = "done" /\ hal.thr[t].outcome.kind = "raise")
              => hal.thr[t].outcome.message # "Unsupported execution mode"


\* The exception classes _encode raises.
EncodingErrors == {"ValueError", "TypeError", "OverflowError"}

C15_NoRawHalError ==
    /\ (brk.pc = "done" /\ brk.caller = "test" /\ brk.outcome.kind = "raise")
          => brk.outcome.exc \notin HalErrorClasses
    /\ (chk.pc = "done" /\ chk.outcome.kind = "raise")
          => chk.outcome.exc \notin HalErrorClasses


\* The values get_signal has returned to the operation in progress.
ReadValues == {chk.reads[i] : i \in 1..Len(chk.reads)}

(***************************************************************************)
(* C16: assert_consistent_signals reads the named signals in the order     *)
(* given, each with get_signal under the timeout passed, counted from the  *)
(* start of that read; when all of them were read it raises SutFault if    *)
(* the values read contain more than one distinct value and returns        *)
(* normally if they are all equal.                                         *)
(***************************************************************************)
C16_ConsistentSignals ==
    (chk.op = "assert_consistent_signals" /\ chk.pc \in {"read", "done"})
    => /\ Len(chk.reads) <= Len(chk.names)
       /\ (chk.k > 1 \/ (chk.pc = "done" /\ Len(chk.reads) < Len(chk.names))) =>
             /\ brk.op = "get_signal"
             /\ brk.timeout_s = Some(chk.timeout_s)
             /\ brk.signal_name =
                   chk.names[Len(chk.reads) + (IF brk.outcome.kind = "raise" THEN 1 ELSE 0)]
             /\ (brk.signal_name \in SignalNames /\ brk.port.kind = "return")
                   => brk.deadline = Some(brk.entry + chk.timeout_s)
       /\ (chk.pc = "done" /\ Len(chk.reads) = Len(chk.names)) =>
             /\ Cardinality(ReadValues) > 1
                   => (chk.outcome.kind = "raise" /\ chk.outcome.exc = "SutFault")
             /\ Cardinality(ReadValues) <= 1 => chk.outcome = Return(PyNone)
       /\ (chk.pc = "done" /\ Len(chk.reads) < Len(chk.names)) =>
             chk.outcome = brk.outcome /\ chk.outcome.kind = "raise"


\* observed in (0, "NONE", "INACTIVE", "OK")
Healthy(v) == PyIn(v, HealthyValues)

(***************************************************************************)
(* C17: assert_no_faults reads the named signals in the order given; every *)
(* value read before the last one is in (0, "NONE", "INACTIVE", "OK"); it  *)
(* raises EnvironmentFault exactly when the value just read is not, at     *)
(* once, and it returns normally only after reading every name and finding *)
(* every value healthy.                                                    *)
(***************************************************************************)
C17_NoFaults ==
    (chk.op = "assert_no_faults" /\ chk.pc \in {"read", "done"})
    => /\ Len(chk.reads) <= Len(chk.names)
       /\ (chk.k > 1 \/ (chk.pc = "done" /\ chk.outcome.kind = "raise")) =>
             /\ brk.op = "get_signal"
             /\ brk.timeout_s = Some(chk.timeout_s)
             /\ brk.signal_name =
                   chk.names[Len(chk.reads) + (IF brk.outcome.kind = "raise" THEN 1 ELSE 0)]
       /\ \A i \in 1..(Len(chk.reads) - 1) : Healthy(chk.reads[i])
       /\ chk.pc = "read" => \A i \in 1..Len(chk.reads) : Healthy(chk.reads[i])
       /\ (chk.pc = "done" /\ chk.outcome.kind = "return") =>
             /\ Len(chk.reads) = Len(chk.names)
             /\ \A i \in 1..Len(chk.reads) : Healthy(chk.reads[i])
       /\ (chk.pc = "done" /\ chk.reads # <<>> /\ ~Healthy(chk.reads[Len(chk.reads)])) =>
             (chk.outcome.kind = "raise" /\ chk.outcome.exc = "EnvironmentFault")
       /\ (chk.pc = "done" /\ chk.outcome.kind = "raise" /\ chk.outcome.exc = "EnvironmentFault") =>
             (chk.reads # <<>> /\ ~Healthy(chk.reads[Len(chk.reads)]))

\* Fault read as "OK", then Speed read as 2: EnvironmentFault after the
\* second read.
C17_Witness ==
    /\ chk.op = "assert_no_faults" /\ chk.pc = "done"
    /\ chk.names = <<"Fault", "Speed">>
    /\ chk.reads = <<PyStr(S_OK), PyInt(2)>>
    /\ chk.outcome.kind = "raise" /\ chk.outcome.exc = "EnvironmentFault"


\* The value get_signal returned to an assertion that received a frame of its
\* signal, and whether that value fails the assertion's test.
ValueRead == _decode(Signals[brk.signal_name],
                     received[Signals[brk.signal_name].bus][Len(received[Signals[brk.signal_name].bus])])

Mismatch ==
    CASE brk.op = "assert_signal_equal" -> ValueRead # brk.arg
      [] brk.op = "assert_signal_in" -> ~PyIn(ValueRead, brk.arg)
      [] brk.op = "assert_signal_in_range" ->
            ValueRead.t = "int" /\ ~(brk.arg[1] <= ValueRead.n /\ ValueRead.n <= brk.arg[2])

(***************************************************************************)
(* C18: an assert_signal_equal, assert_signal_in or assert_signal_in_range *)
(* call whose get_signal returned a value raises SutFault exactly when the *)
(* value differs from the expected value, is not one of the expected       *)
(* values, or is a number outside [minimum, maximum]; in every other case  *)
(* it returns normally.                                                    *)
(***************************************************************************)
C18_SutFaultOrReturn ==
    (/\ brk.pc = "done" /\ brk.caller = "test"
     /\ brk.op \in {"assert_signal_equal", "assert_signal_in", "assert_signal_in_range"}
     /\ brk.signal_name \in SignalNames
     /\ Len(received[Signals[brk.signal_name].bus]) > brk.base
     /\ received[Signals[brk.signal_name].bus][Len(received[Signals[brk.signal_name].bus])].can_id
           = Signals[brk.signal_name].can_id)
    => IF Mismatch
       THEN brk.outcome.kind = "raise" /\ brk.outcome.exc = "SutFault"
       ELSE brk.outcome = Return(PyNone)

(***************************************************************************)
(* C18, amended: as above, except that assert_signal_in_range converts the *)
(* value with float() first and ends with the ValueError of the conversion *)
(* when the value read is an enum symbol that is not a numeral.            *)
(***************************************************************************)
C18_Assertions ==
    (/\ brk.pc = "done" /\ brk.caller = "test"
     /\ brk.op \in {"assert_signal_equal", "assert_signal_in", "assert_signal_in_range"}
     /\ brk.signal_name \in SignalNames
     /\ Len(received[Signals[brk.signal_name].bus]) > brk.base
     /\ received[Signals[brk.signal_name].bus][Len(received[Signals[brk.signal_name].bus])].can_id
           = Signals[brk.signal_name].can_id)
    => IF brk.op = "assert_signal_in_range" /\ ValueRead.t = "str" /\ ~AllDigits(ValueRead.s)
       THEN brk.outcome.kind = "raise" /\ brk.outcome.exc = "ValueError"
       ELSE IF Mismatch
       THEN brk.outcome.kind = "raise" /\ brk.outcome.exc = "SutFault"
       ELSE brk.outcome = Return(PyNone)

\* Speed read as 2 with the range [0, 2]: the upper bound is inside.
C18_Witness ==
    /\ brk.pc = "done" /\ brk.caller = "test" /\ brk.op = "assert_signal_in_range"
    /\ brk.signal_name = "Speed" /\ brk.arg = <<0, 2>>
    /\ Len(received["body"]) = 1 /\ received["body"][1].can_id = SpeedId
    /\ received["body"][1].data = <<2>>
    /\ brk.outcome = Return(PyNone)


(***************************************************************************)
(* C19: for an enum signal and a value that is a key of its mapping,       *)
(* _encode returns a frame and _decode of that frame gives the value back. *)
(***************************************************************************)
C19_EnumRoundTrip ==
    (/\ cod.pc \in {"encoded", "decoded"}
     /\ cod.signal_def.payload.type = "enum"
     /\ cod.value.t = "str"
     /\ HasKey(cod.signal_def.payload.mapping, cod.value.s))
    => /\ cod.message.kind = "return"
       /\ cod.pc = "decoded" => cod.decoded = Return(cod.value)

(***************************************************************************)
(* C20: for a uint signal and an integer in 0..255, and for an int signal  *)
(* and an integer in -128..127, _encode returns a frame and _decode of     *)
(* that frame gives the integer back.                                      *)
(***************************************************************************)
C20_IntRoundTrip ==
    (/\ cod.pc \in {"encoded", "decoded"}
     /\ cod.value.t = "int"
     /\ \/ cod.signal_def.payload.type = "uint" /\ cod.value.n \in 0..255
        \/ cod.signal_def.payload.type = "int" /\ cod.value.n \in -128..127)
    => /\ cod.message.kind = "return"
       /\ cod.pc = "decoded" => cod.decoded = Return(cod.value)


(***************************************************************************)
(* C21: for a uint signal and an integer outside 0..255, and for an int    *)
(* signal and an integer outside -128..127, _encode raises, so that        *)
(* set_signal ends at line 26 with no frame made and none handed to send.  *)
(***************************************************************************)
C21_OutOfRangeRejected ==
    (/\ cod.pc \in {"encoded", "decoded"}
     /\ cod.value.t = "int"
     /\ \/ cod.signal_def.payload.type = "uint" /\ cod.value.n \notin 0..255
        \/ cod.signal_def.payload.type = "int" /\ cod.value.n \notin -128..127)
    => cod.message.kind = "raise"


(***************************************************************************)
(* C22: for an enum signal, every key k of its mapping that is mapped to a *)
(* byte, and every string value equal to k up to letter case, _encode      *)
(* returns the frame whose data is the byte mapped to k.                   *)
(***************************************************************************)
C22_CaseInsensitiveEncode ==
    (/\ cod.pc \in {"encoded", "decoded"}
     /\ cod.signal_def.payload.type = "enum"
     /\ cod.value.t = "str")
    => \A i \in 1..Len(cod.signal_def.payload.mapping) :
          LET item == cod.signal_def.payload.mapping[i] IN
          (str_upper(item[1]) = str_upper(cod.value.s) /\ item[2] \in 0..255)
          => cod.message = Return(CanMessage(cod.signal_def.can_id, <<item[2]>>))


(***************************************************************************)
(* C23: for a frame with at least one data byte, _decode of an enum signal *)
(* gives the key of the first item of the mapping (in mapping order) whose *)
(* value is the first data byte, and the number of that byte when no item  *)
(* has it as value; _decode of a uint or int signal gives the first data   *)
(* byte as a number in 0..255.                                             *)
(***************************************************************************)
C23_Decode ==
    (/\ cod.pc \in {"decoded", "frame_decoded"}
     /\ cod.message.value.data # <<>>)
    => LET byte == cod.message.value.data[1]
           mapping == cod.signal_def.payload.mapping
       IN  IF cod.signal_def.payload.type = "enum"
           THEN \/ \E i \in 1..Len(mapping) :
                      /\ mapping[i][2] = byte
                      /\ \A j \in 1..(i - 1) : mapping[j][2] # byte
                      /\ cod.decoded = Return(PyStr(mapping[i][1]))
                \/ /\ \A i \in 1..Len(mapping) : mapping[i][2] # byte
                   /\ cod.decoded = Return(PyInt(byte))
           ELSE cod.decoded = Return(PyInt(byte)) /\ byte \in 0..255

\* Two keys mapped to the byte of the frame: the first one is returned.
C23_Witness ==
    /\ cod.pc = "frame_decoded"
    /\ cod.signal_def.payload.type = "enum"
    /\ Len(cod.signal_def.payload.mapping) = 2
    /\ cod.signal_def.payload.mapping[1][2] = 1
    /\ cod.signal_def.payload.mapping[2][2] = 1
    /\ cod.message.value.data = <<1, 0>>
    /\ cod.decoded = Return(PyStr(cod.signal_def.payload.mapping[1][1]))


(***************************************************************************)
(* C24, as stated: a wait_for_signal call with timeout T, its deadline     *)
(* being the time of the call plus T, raises nothing but SutFault, and     *)
(* that after the deadline and no later than one polling interval after    *)
(* it; no port receive of the call starts after the deadline.              *)
(***************************************************************************)
C24_RaisesWithinPolling ==
    (/\ brk.op = "wait_for_signal"
     /\ brk.signal_name \in SignalNames
     /\ brk.timeout_s # NoneT) =>
        LET deadline == brk.entry + brk.timeout_s[1] IN
        /\ brk.pc = "done" /\ brk.outcome.kind = "raise" =>
              /\ brk.outcome.exc = "SutFault"
              /\ now > deadline
              /\ now <= deadline + brk.polling_interval
        /\ brk.pc = "recv" => rcv.start <= deadline

(***************************************************************************)
(* C24: a wait_for_signal call with timeout T, its deadline being the time *)
(* of the call plus T, raises nothing but SutFault, and that after the     *)
(* deadline and less than one polling interval and one sleep of the        *)
(* in-memory port's poll after it; no port receive of the call starts      *)
(* after the deadline, and the call does not run on beyond that bound.     *)
(***************************************************************************)
C24_RaisesWithinPollingAndSleep ==
    (/\ brk.op = "wait_for_signal"
     /\ brk.signal_name \in SignalNames
     /\ brk.timeout_s # NoneT) =>
        LET deadline == brk.entry + brk.timeout_s[1] IN
        /\ brk.pc = "done" /\ brk.outcome.kind = "raise" =>
              /\ brk.outcome.exc = "SutFault"
              /\ now > deadline
              /\ now < deadline + brk.polling_interval + Sleep
        /\ brk.pc = "recv" => rcv.start <= deadline
        /\ brk.pc \in {"loop", "recv"} => now < deadline + brk.polling_interval + Sleep

\* A wait raised SutFault after a frame that did not match and a port
\* timeout, later than one polling interval after its deadline.
C24_Witness ==
    /\ brk.op = "wait_for_signal"
    /\ brk.pc = "done"
    /\ brk.outcome.kind = "raise"
    /\ brk.outcome.exc = "SutFault"
    /\ brk.timeout_s # NoneT
    /\ brk.discarded >= 1
    /\ brk.timeouts >= 1
    /\ now > brk.entry + brk.timeout_s[1] + brk.polling_interval


(***************************************************************************)
(* C25: with Door = enum {OPEN: 1, CLOSED: 0} on frame id 0x100, a call    *)
(* set_signal("Door", "OPEN") that got a port has handed to its send       *)
(* exactly one frame, with id 0x100 and the data byte 01; and a call       *)
(* get_signal("Door") with a positive timeout, on an in-memory port into   *)
(* which the frame (0x100, [01]) was injected before the call, with no     *)
(* other frame of id 0x100 queued in front of it, has returned "OPEN".     *)
(***************************************************************************)
C25_DoorExample ==
    /\ (/\ brk.pc = "done" /\ brk.op = "set_signal" /\ brk.caller = "test"
        /\ brk.signal_name = "Door" /\ brk.arg = PyStr(S_OPEN)
        /\ brk.port.kind = "return")
       => SubSeq(sent["body"], brk.base + 1, Len(sent["body"])) = <<CanMessage(256, <<1>>)>>
    /\ (/\ brk.pc = "done" /\ brk.op = "get_signal" /\ brk.caller = "test"
        /\ brk.signal_name = "Door" /\ brk.timeout_s[1] > 0
        /\ brk.port.kind = "return"
        /\ \E i \in (brk.base + 1)..Len(injected["body"]) :
              /\ injected["body"][i].can_id = 256
              /\ injected["body"][i].data = <<1>>
              /\ injected["body"][i].timestamp[1] <= brk.entry
              /\ \A j \in (brk.base + 1)..(i - 1) : injected["body"][j].can_id # 256)
       => brk.outcome = Return(PyStr(S_OPEN))

\* The frame (0x100, [01]) was injected behind a frame of another id, and
\* get_signal("Door") has returned "OPEN".
C25_Witness ==
    /\ brk.pc = "done" /\ brk.op = "get_signal" /\ brk.caller = "test"
    /\ brk.signal_name = "Door"
    /\ Len(injected["body"]) = 2
    /\ injected["body"][1].can_id = SpeedId
    /\ injected["body"][2].can_id = 256 /\ injected["body"][2].data = <<1>>
    /\ received["body"] = injected["body"]
    /\ brk.outcome = Return(PyStr(S_OPEN))


\* The log entry is a step that _dispatch refused: its action has no handler.
Unrecognized(entry) ==
    /\ entry.outcome.kind = "raise"
    /\ entry.outcome.exc = "KeyError"
    /\ entry.outcome.message[1] = "Unsupported precondition action"

(***************************************************************************)
(* C26: once a step, forward or rollback, was refused by _dispatch because *)
(* its action has no handler, no step and no rollback step is dispatched   *)
(* after it, and apply has ended with the error _dispatch raised for it.   *)
(***************************************************************************)
C26_UnrecognizedActionFatal ==
    \A k \in 1..Len(eng.log) :
        Unrecognized(eng.log[k])
        => /\ k = Len(eng.log)
           /\ eng.pc = "done"
           /\ eng.outcome = eng.log[k].outcome


(***************************************************************************)
(* C27: a call of apply for a name that is not in the precondition catalog *)
(* has ended with the KeyError of the catalog's lookup (the precondition   *)
(* is not defined); no step and no rollback step was dispatched, and       *)
(* nothing was sent or received.                                           *)
(***************************************************************************)
C27_UnknownPrecondition ==
    (eng.pc # "idle" /\ eng.name \notin DOMAIN preconditions)
    => /\ eng.pc = "done"
       /\ eng.outcome = Raise("KeyError",
                              <<"Precondition is not defined in the configuration", eng.name>>)
       /\ eng.log = <<>>
       /\ \A b \in Buses : sent[b] = <<>> /\ received[b] = <<>>

\* apply("Missing") has ended with KeyError on a catalog whose only
\* definition has steps and rollback steps.
C27_Witness ==
    /\ eng.pc = "done"
    /\ eng.name = "Missing"
    /\ eng.outcome.kind = "raise" /\ eng.outcome.exc = "KeyError"
    /\ preconditions["Setup"].steps # <<>>
    /\ preconditions["Setup"].rollback # <<>>
    /\ eng.log = <<>>


\* What the handler registered for the step's action gives when it is called
\* with the step's target and value, as far as the handlers of SpecRegister
\* go: the outcome of the dispatch.
HandlerOutcome(step) ==
    LET message == _encode(Signals[step.target], step.value) IN
    CASE actions[step.action] = "handler_noop" -> Return(PyNone)
      [] actions[step.action] = "handler_raise" ->
            Raise("RuntimeError", <<step.target, step.value>>)
      [] actions[step.action] = "_set_signal" ->
            IF message.kind = "raise" THEN message ELSE Return(PyNone)
      [] OTHER ->
            Raise("ValueError", <<"assert_signal_range requires a mapping with 'min' and 'max'">>)

(***************************************************************************)
(* C28: a call register_action(name, handler) makes handler the registry's *)
(* entry for name, whether name had none or a built-in one, and leaves the *)
(* entries of all other names as they were; and every step dispatched      *)
(* afterwards, forward or rollback, is refused only if its action has no   *)
(* entry, and otherwise has the outcome of the entry's handler called with *)
(* the step's target and value, the frames sent being those of the steps   *)
(* whose handler is _set_signal.                                           *)
(***************************************************************************)
C28_RegisterAction ==
    /\ [][\A name \in RegisterNames, handler \in Handlers :
             register_action(name, handler)
             => /\ DOMAIN actions' = DOMAIN actions \cup {name}
                /\ actions'[name] = handler
                /\ \A other \in DOMAIN actions \ {name} : actions'[other] = actions[other]]_vars
    /\ [](LET IsSent(e) == /\ e.step.action \in DOMAIN actions
                           /\ actions[e.step.action] = "_set_signal"
                           /\ e.outcome.kind = "return"
              S == SelectSeq(eng.log, IsSent)
          IN  /\ \A k \in 1..Len(eng.log) :
                    IF eng.log[k].step.action \in DOMAIN actions
                    THEN eng.log[k].outcome = HandlerOutcome(eng.log[k].step)
                    ELSE Unrecognized(eng.log[k])
              /\ Len(sent["body"]) = Len(S)
              /\ \A n \in 1..Len(S) :
                    Return(sent["body"][n]) = _encode(Signals[S[n].step.target], S[n].step.value))

\* "reboot" was registered with the service's _set_signal and "set_signal"
\* with the handler that does nothing: apply has returned, the reboot step
\* has sent the frame of its target and value, the set_signal step nothing.
C28_Witness ==
    /\ eng.pc = "done"
    /\ eng.outcome = Return(PyNone)
    /\ actions["set_signal"] = "handler_noop"
    /\ "reboot" \in DOMAIN actions
    /\ actions["reboot"] = "_set_signal"
    /\ Len(eng.log) = 2
    /\ eng.log[1].step = Step("reboot", "Door", PyStr(S_OPEN))
    /\ eng.log[2].step = Step("set_signal", "Door", PyStr(S_CLOSED))
    /\ sent["body"] = <<CanMessage(DoorId, <<1>>)>>


(***************************************************************************)
(* C29: the mode of a HalManager never changes, and with the mode read     *)
(* without regard to letter case: in mode HIL every port it constructs is  *)
(* a HilCanPort and a call of get_can_port fails only when the hardware    *)
(* port cannot be constructed; in modes MOCK and SIL every port it         *)
(* constructs is a MockCanPort and every call returns one; and in any mode *)
(* all the ports of one HalManager are of the same class.                  *)
(***************************************************************************)
C29_VariantByMode ==
    /\ [][hal'.mode = hal.mode]_vars
    /\ [](LET mode == str_upper(hal.mode)
              variant == IF mode = M_HIL THEN "HilCanPort" ELSE "MockCanPort"
          IN  /\ mode \in {M_HIL, M_MOCK, M_SIL} =>
                    /\ \A i \in 1..Len(hal.made) : hal.made[i].cls = variant
                    /\ \A t \in RegistryThreads :
                          hal.thr[t].pc = "done" =>
                             IF hal.thr[t].outcome.kind = "return"
                             THEN hal.made[hal.thr[t].outcome.value].cls = variant
                             ELSE /\ mode = M_HIL
                                  /\ hal.thr[t].outcome =
                                        Raise("CanError", "Failed to initialise CAN bus")
              /\ \A i, j \in 1..Len(hal.made) : hal.made[i].cls = hal.made[j].cls)

\* A manager of mode HIL (constructed with "Hil") holds a hardware port for
\* each of the two buses, after three calls of get_can_port.
C29_Witness ==
    /\ hal.mode = M_HIL
    /\ hal.ncalls = 3
    /\ Len(hal.made) = 2
    /\ hal.made[1].cls = "HilCanPort" /\ hal.made[2].cls = "HilCanPort"
    /\ hal.can_ports["body"] # 0 /\ hal.can_ports["chassis"] # 0
    /\ HalQuiet


(***************************************************************************)
(* C30: a call assert_signal_equal(name, expected, timeout) with a         *)
(* positive timeout, on an in-memory port on which a frame of the signal   *)
(* that decodes to expected was queued when the call was made, has         *)
(* returned normally, whatever frames were queued in front of that frame.  *)
(***************************************************************************)
C30_EventuallyEqual ==
    (/\ brk.pc = "done" /\ brk.op = "assert_signal_equal" /\ brk.caller = "test"
     /\ brk.signal_name \in SignalNames
     /\ brk.port.kind = "return"
     /\ brk.timeout_s[1] > 0
     /\ LET signal_def == Signals[brk.signal_name]
            frames == injected[signal_def.bus]
        IN  \E i \in (brk.base + 1)..Len(frames) :
               /\ frames[i].can_id = signal_def.can_id
               /\ PyEq(_decode(signal_def, frames[i]), brk.arg)
               /\ frames[i].timestamp[1] <= brk.entry)
    => brk.outcome = Return(PyNone)


(***************************************************************************)
(* C31: while the clock advances and the calling thread is scheduled, a    *)
(* get_signal call, and a wait_for_signal call with a finite timeout,      *)
(* comes to its end, also when frames that do not end it keep arriving     *)
(* without pause; when it ends by raising, it raises SutFault, with the    *)
(* deadline reached.                                                       *)
(***************************************************************************)
C31_Terminates ==
    (brk.pc \in {"loop", "recv"} /\ brk.deadline # NoneT)
    ~> (/\ brk.pc = "done"
        /\ brk.outcome.kind = "raise" =>
              (brk.outcome.exc = "SutFault" /\ now >= brk.deadline[1]))

\* wait_for_signal has raised SutFault after dropping frames, without one
\* port timeout, and the next frame is already queued.
C31_Witness ==
    /\ brk.pc = "done"
    /\ brk.op = "wait_for_signal"
    /\ brk.outcome.kind = "raise" /\ brk.outcome.exc = "SutFault"
    /\ brk.discarded = MaxCount
    /\ brk.timeouts = 0
    /\ rx_queue["body"] # <<>>



(***************************************************************************)
(* The frames a wait_for_signal call takes from the port, under Spec.      *)
(***************************************************************************)
\* C32: when wait_for_signal has returned normally, the frames it took from
\* the port are exactly those injected on the signal's bus and not received
\* before the call, up to and including the first one that has the signal's
\* id and decodes to the expected value; the frames before that one were
\* discarded, and the port's queue holds the frames injected after it, in
\* the order of their injection.
C32_ConsumedUpToFirstMatch ==
    (/\ brk.op = "wait_for_signal"
     /\ brk.pc = "done"
     /\ brk.outcome.kind = "return") =>
        LET signal_def == Signals[brk.signal_name]
            inj == injected[signal_def.bus]
            k == Len(received[signal_def.bus])
            Match(m) == /\ m.can_id = signal_def.can_id
                        /\ PyEq(_decode(signal_def, m), brk.arg)
            matches == {i \in (brk.base + 1)..Len(inj) : Match(inj[i])}
        IN  /\ matches # {}
            /\ k = CHOOSE i \in matches : \A j \in matches : i <= j
            /\ received[signal_def.bus] = SubSeq(inj, 1, k)
            /\ rx_queue[signal_def.bus] = SubSeq(inj, k + 1, Len(inj))
            /\ brk.discarded = k - brk.base - 1

\* Door CLOSED, Door OPEN and Door OPEN were injected; wait_for_signal for
\* Door = OPEN returned having discarded the first frame, and the third
\* frame is still queued.
C32_Witness ==
    /\ brk.op = "wait_for_signal"
    /\ brk.signal_name = "Door"
    /\ brk.pc = "done"
    /\ brk.outcome.kind = "return"
    /\ brk.discarded = 1
    /\ Len(injected["body"]) = 3
    /\ injected["body"][1].data = <<0>>
    /\ injected["body"][2] = injected["body"][3]
    /\ rx_queue["body"] = <<injected["body"][3]>>


(***************************************************************************)
(* C33: assert_consistent_signals over two different signals of one bus    *)
(* returns normally whenever, at the call, the bus's queue held exactly    *)
(* one frame for each of the two signals and the two frames decode to      *)
(* equal values, in whichever order the two frames were injected.  (Frames *)
(* are injected only between operations, so two frames injected and two    *)
(* received by the finished operation were both queued when it began.)     *)
(***************************************************************************)
C33_OrderIndependent ==
    (/\ chk.op = "assert_consistent_signals"
     /\ chk.pc = "done"
     /\ Len(chk.names) = 2
     /\ chk.names[1] # chk.names[2]
     /\ Signals[chk.names[1]].bus = Signals[chk.names[2]].bus
     /\ LET a == Signals[chk.names[1]]
            b == Signals[chk.names[2]]
            inj == injected[a.bus]
        IN  /\ a.can_id # b.can_id
            /\ Len(inj) = 2
            /\ Len(received[a.bus]) = 2
            /\ \E i, j \in 1..2 :
                  /\ i # j
                  /\ inj[i].can_id = a.can_id
                  /\ inj[j].can_id = b.can_id
                  /\ PyEq(_decode(a, inj[i]), _decode(b, inj[j])))
    => chk.outcome = Return(PyNone)


(***************************************************************************)
(* The steps of a definition on a MockCanPort, under SpecSteps.            *)
(***************************************************************************)
\* C34: on a MockCanPort a set_signal step leaves the port's receive queue
\* as it is and, when it hands a frame to send, returns normally; and a
\* wait_for_signal or assert_signal step (the latter reads with get_signal)
\* that follows a set_signal step of the same signal that returned, and is
\* entered with the bus's queue empty, raises SutFault, receives no frame
\* and leaves the queue empty.
C34_NoLoopback ==
    [][(eng.pc = "steps" /\ eng.i <= Len(eng.definition.steps)) =>
          LET step == eng.definition.steps[eng.i]
              bus == Signals[step.target].bus
              last == eng'.log[Len(eng'.log)]
          IN  /\ step.action = "set_signal" =>
                    /\ rx_queue' = rx_queue
                    /\ received' = received
                    /\ sent' # sent => last.outcome = Return(PyNone)
              /\ (/\ step.action \in ReadActions
                  /\ eng.i > 1
                  /\ eng.definition.steps[eng.i - 1].action = "set_signal"
                  /\ eng.definition.steps[eng.i - 1].target = step.target
                  /\ rx_queue[bus] = <<>>) =>
                    /\ last.outcome.kind = "raise"
                    /\ last.outcome.exc = "SutFault"
                    /\ eng'.pc = "rollback"
                    /\ rx_queue' = rx_queue
                    /\ received' = received]_vars

\* A Speed frame was queued and taken by a first read; set_signal Speed
\* then returned, its frame was sent, and the read of Speed that followed
\* raised SutFault at its deadline.
C34_Witness ==
    /\ Len(eng.log) = 3
    /\ eng.log[2].step.action = "set_signal"
    /\ eng.log[2].step.target = "Speed"
    /\ eng.log[2].outcome = Return(PyNone)
    /\ eng.log[3].step.action \in ReadActions
    /\ eng.log[3].step.target = "Speed"
    /\ eng.log[3].outcome.kind = "raise"
    /\ eng.log[3].outcome.exc = "SutFault"
    /\ Len(received["body"]) = 1
    /\ Len(sent["body"]) = 1
    /\ now >= StartTime + StepTimeout


(***************************************************************************)
(* The reads of a signal when the manager holds the ports of two buses,    *)
(* under SpecBuses.                                                        *)
(***************************************************************************)
\* C35: a wait_for_signal or get_signal call for a signal of bus X takes
\* frames from the port of X only: a step that is not an injection changes
\* the queue, or the frames received, of no bus but that of the signal being
\* read; on every bus the frames injected are those received followed by
\* those still queued; and a call returns normally only on a frame received
\* from its own bus that has the signal's id (and, for wait_for_signal, the
\* expected value), so a frame of the same id injected on the other bus
\* never ends it.
C35_OwnBusOnly ==
    /\ [](\A b \in DOMAIN rx_queue : injected[b] = received[b] \o rx_queue[b])
    /\ []((brk.op \in {"wait_for_signal", "get_signal"} /\ brk.pc = "done"
           /\ brk.outcome.kind = "return") =>
             LET signal_def == Signals[brk.signal_name]
                 recd == received[signal_def.bus]
             IN  /\ Len(recd) > brk.base
                 /\ recd[Len(recd)].can_id = signal_def.can_id
                 /\ brk.op = "wait_for_signal" =>
                       PyEq(_decode(signal_def, recd[Len(recd)]), brk.arg))
    /\ [][injected' = injected =>
             \A b \in DOMAIN rx_queue :
                 (rx_queue'[b] # rx_queue[b] \/ received'[b] # received[b]) =>
                     /\ brk.op \in {"wait_for_signal", "get_signal"}
                     /\ brk.pc = "recv"
                     /\ Signals[brk.signal_name].bus = b]_vars

\* Two OPEN frames (id 0x100) are queued on chassis and none on body:
\* wait_for_signal for Door = OPEN, a signal of body with that id, raised
\* SutFault and the two frames are still queued on chassis.
C35_Witness ==
    /\ brk.op = "wait_for_signal"
    /\ brk.signal_name = "Door"
    /\ brk.pc = "done"
    /\ brk.outcome.kind = "raise"
    /\ brk.outcome.exc = "SutFault"
    /\ brk.timeouts >= 1
    /\ injected["body"] = <<>>
    /\ Len(rx_queue["chassis"]) = 2
    /\ \A i \in 1..2 : rx_queue["chassis"][i].data = <<1>>


\* C36: a get_signal call on a defined signal with a timeout of zero or
\* less raises SutFault at the moment it was entered without calling
\* receive: no receive is ever in progress for it, it takes no frame, and
\* the frames queued on the signal's bus, one of the signal itself
\* included, stay queued.
C36_NoReceiveWithoutBudget ==
    (/\ brk.op = "get_signal"
     /\ brk.signal_name \in SignalNames
     /\ brk.timeout_s[1] <= 0) =>
        LET bus == Signals[brk.signal_name].bus IN
        /\ brk.pc \in {"loop", "done"}
        /\ rcv = RcvIdle
        /\ Len(received[bus]) = brk.base
        /\ injected[bus] = received[bus] \o rx_queue[bus]
        /\ now = brk.entry
        /\ brk.pc = "done" =>
              /\ brk.outcome.kind = "raise"
              /\ brk.outcome.exc = "SutFault"
              /\ brk.timeouts = 0 /\ brk.discarded = 0

\* get_signal("Door", -1) raised SutFault with a Door frame at the head of
\* the queue, which is still there.
C36_Witness ==
    /\ brk.op = "get_signal"
    /\ brk.signal_name = "Door"
    /\ brk.timeout_s[1] < 0
    /\ brk.pc = "done"
    /\ brk.outcome.kind = "raise"
    /\ brk.outcome.exc = "SutFault"
    /\ rx_queue["body"] # <<>>
    /\ rx_queue["body"][1].can_id = DoorId
    /\ received["body"] = <<>>


(***************************************************************************)
(* C37: a set_signal call that ends with the KeyError of an unknown signal *)
(* name or with an error of _encode has handed no frame to the send of any *)
(* port; and whenever a set_signal call hands a frame to send, it is one   *)
(* frame, on the port of the signal's bus, and it is the frame _encode     *)
(* returned for the signal and the value.                                  *)
(***************************************************************************)
C37_FailedSetSendsNothing ==
    [][(calls' = calls + 1 /\ brk'.op = "set_signal") =>
          /\ (/\ brk'.outcome.kind = "raise"
              /\ brk'.outcome.exc \in {"KeyError"} \cup EncodingErrors) => sent' = sent
          /\ sent' # sent =>
                /\ brk'.signal_name \in SignalNames
                /\ LET signal_def == Signals[brk'.signal_name]
                       message == _encode(signal_def, brk'.arg)
                   IN  /\ message.kind = "return"
                       /\ sent' = [sent EXCEPT ![signal_def.bus] = Append(@, message.value)]]_vars

\* set_signal("Speed", 256) obtained the port of body and ended with the
\* OverflowError of _encode; nothing was handed to send.
C37_Witness ==
    /\ brk.pc = "done" /\ brk.op = "set_signal"
    /\ brk.signal_name = "Speed" /\ brk.arg = PyInt(256)
    /\ brk.port.kind = "return"
    /\ brk.outcome.kind = "raise" /\ brk.outcome.exc = "OverflowError"
    /\ \A b \in DOMAIN sent : sent[b] = <<>>


(***************************************************************************)
(* C38: when the construction of a port fails inside get_can_port and the  *)
(* call ends with the error of the construction, the cache is left as it   *)
(* was (no entry is made for the bus, the entries of the other buses are   *)
(* the same instances) and no port was added; and a call that finds no     *)
(* entry for its bus goes on to construct a port, also after a failed      *)
(* call for that bus.                                                      *)
(***************************************************************************)
C38_FailedConstructionCachesNothing ==
    [][\A t \in RegistryThreads :
          /\ (/\ hal.thr[t].pc = "create"
              /\ hal'.thr[t].pc = "done"
              /\ hal'.thr[t].outcome.kind = "raise") =>
                /\ hal'.can_ports = hal.can_ports
                /\ hal'.can_ports[hal.thr[t].bus] = 0
                /\ hal'.made = hal.made
          /\ (/\ hal.thr[t].pc = "check"
              /\ hal'.thr[t].pc # "check") =>
                IF hal.can_ports[hal.thr[t].bus] = 0
                THEN hal'.thr[t].pc = "create"
                ELSE hal'.thr[t].outcome = Return(hal.can_ports[hal.thr[t].bus])]_vars

\* In HIL mode the port of chassis was constructed and cached; a call for
\* body failed while the hardware was down; a later call for body
\* constructed the port, and the entry of chassis is the same instance.
C38_Witness ==
    /\ hal.mode = M_HIL
    /\ hal.ncalls = 3
    /\ hal.thr["t2"].pc = "done" /\ hal.thr["t2"].bus = "body"
    /\ hal.thr["t2"].outcome.kind = "raise"
    /\ hal.thr["t1"].pc = "done" /\ hal.thr["t1"].bus = "body"
    /\ hal.thr["t1"].outcome = Return(2)
    /\ hal.can_ports = [b \in RegistryBuses |-> IF b = "body" THEN 2 ELSE 1]
    /\ Len(hal.made) = 2


(***************************************************************************)
(* C39: a wait_for_signal or assert_signal step whose value is the string  *)
(* of a number and whose target is a uint or int signal returns normally   *)
(* when, as the step begins, the frame at the head of the bus's queue has  *)
(* the signal's id and carries that number.                                *)
(***************************************************************************)
C39_NumericStepSucceeds ==
    [][(/\ eng.pc = "steps"
        /\ eng.i <= Len(eng.definition.steps)
        /\ LET step == eng.definition.steps[eng.i]
               signal_def == Signals[step.target]
               queue == rx_queue[signal_def.bus]
           IN  /\ step.action \in ReadActions
               /\ signal_def.payload.type \in {"uint", "int"}
               /\ step.value.t = "str"
               /\ AllDigits(step.value.s)
               /\ queue # <<>>
               /\ queue[1].can_id = signal_def.can_id
               /\ _decode(signal_def, queue[1]) = PyInt(StrToNat(step.value.s)))
       => eng'.log[Len(eng'.log)].outcome = Return(PyNone)]_vars

====
